---- MODULE Spec2Model ----
(***************************************************************************)
(* Verification model of the rb_eit steady-state solvers and sweep engine  *)
(* (src/rb_eit/bloch_solver.py, bloch_equations.py, fwm_spectra.py,        *)
(* parameter_sweep.py).                                                    *)
(*                                                                         *)
(* Real numbers are exact rationals <<n, d>> (d > 0, lowest terms);        *)
(* complex numbers are records [re, im] of rationals; matrices are         *)
(* sequences of rows.  The external root-finder (scipy.optimize.fsolve)    *)
(* is an oracle: for given arguments it returns a fixed but arbitrary      *)
(* outcome (converged, stopped without convergence, or raised).            *)
(***************************************************************************)
EXTENDS Integers, Sequences, FiniteSets, TLC

(***************************************************************************)
(* Bounds of the model.                                                    *)
(***************************************************************************)
\* longest parameter array / largest num_points a sweep is started with
MaxPoints == 2

(***************************************************************************)
(* Exact rational arithmetic.                                              *)
(***************************************************************************)
Abs(n) == IF n < 0 THEN -n ELSE n

RECURSIVE GCD(_, _)
GCD(a, b) == IF b = 0 THEN a ELSE GCD(b, a % b)

\* the rational n/d in lowest terms with positive denominator (d # 0)
Rat(n, d) ==
    LET g == GCD(Abs(n), Abs(d))
        s == IF d < 0 THEN -1 ELSE 1
    IN  <<s * (n \div g), s * (d \div g)>>

R0 == <<0, 1>>
R1 == <<1, 1>>
RInt(k) == <<k, 1>>

\* sums and products reduce by common factors first, to keep integers small
RAdd(a, b) ==
    LET g == GCD(a[2], b[2])
    IN  Rat(a[1] * (b[2] \div g) + b[1] * (a[2] \div g), (a[2] \div g) * b[2])
RNeg(a) == <<-a[1], a[2]>>
RSub(a, b) == RAdd(a, RNeg(b))
RMul(a, b) ==
    LET g1 == GCD(Abs(a[1]), b[2])
        g2 == GCD(Abs(b[1]), a[2])
    IN  IF a[1] = 0 \/ b[1] = 0 THEN <<0, 1>>
        ELSE <<(a[1] \div g1) * (b[1] \div g2), (a[2] \div g2) * (b[2] \div g1)>>
\* 1 / b  (b # 0)
RInv(b) == IF b[1] < 0 THEN <<-b[2], -b[1]>> ELSE <<b[2], b[1]>>
RDiv(a, b) == RMul(a, RInv(b))
RLt(a, b) == RSub(a, b)[1] < 0
RLe(a, b) == RSub(a, b)[1] <= 0
RAbs(a) == <<Abs(a[1]), a[2]>>
RMax(a, b) == IF RLt(a, b) THEN b ELSE a
RHalf(a) == RMul(a, Rat(1, 2))
RSq(a) == RMul(a, a)

RECURSIVE SqrtSearch(_, _, _)
\* the largest k in lo..hi with k * k <= n  (lo * lo <= n)
SqrtSearch(lo, hi, n) ==
    IF lo >= hi THEN lo
    ELSE LET mid == (lo + hi + 1) \div 2
         IN  IF mid <= n \div mid THEN SqrtSearch(mid, hi, n)
             ELSE SqrtSearch(lo, mid - 1, n)

\* floor of the square root of n >= 0
ISqrt(n) == SqrtSearch(0, n, n)
IsSquare(n) == ISqrt(n) * ISqrt(n) = n
\* a >= 0 is the square of a rational
RIsSquare(a) == a[1] >= 0 /\ IsSquare(a[1]) /\ IsSquare(a[2])
RSqrt(a) == <<ISqrt(a[1]), ISqrt(a[2])>>

\* floor(d / 10^k), computed without forming 10^k
RECURSIVE FloorDivPow10(_, _)
FloorDivPow10(d, k) == IF k = 0 \/ d = 0 THEN d ELSE FloorDivPow10(d \div 10, k - 1)

\* ceil(d / 10^k) for d >= 0, computed without forming 10^k
RECURSIVE CeilDivPow10(_, _)
CeilDivPow10(d, k) == IF k = 0 \/ d <= 1 THEN d ELSE CeilDivPow10((d + 9) \div 10, k - 1)

\* a > m * 10^-k   (m, k naturals):  n * 10^k > m * d
RGtPow10(a, m, k) == a[1] > FloorDivPow10(m * a[2], k)
\* a < m * 10^-k   (m, k naturals):  n * 10^k < m * d
RLtPow10(a, m, k) == a[1] < CeilDivPow10(m * a[2], k)

RECURSIVE RSum(_)
RSum(s) == IF s = <<>> THEN R0 ELSE RAdd(Head(s), RSum(Tail(s)))

(***************************************************************************)
(* Complex numbers over the rationals.                                     *)
(***************************************************************************)
Cx(re, im) == [re |-> re, im |-> im]
C0 == Cx(R0, R0)
CReal(r) == Cx(r, R0)
CI == Cx(R0, R1)

CAdd(a, b) == Cx(RAdd(a.re, b.re), RAdd(a.im, b.im))
CSub(a, b) == Cx(RSub(a.re, b.re), RSub(a.im, b.im))
CNeg(a) == Cx(RNeg(a.re), RNeg(a.im))
CMul(a, b) == Cx(RSub(RMul(a.re, b.re), RMul(a.im, b.im)),
                 RAdd(RMul(a.re, b.im), RMul(a.im, b.re)))
CConj(a) == Cx(a.re, RNeg(a.im))
CScale(r, a) == Cx(RMul(r, a.re), RMul(r, a.im))
\* |a|^2
CAbs2(a) == RAdd(RSq(a.re), RSq(a.im))
\* a / b  (b # 0)
CDiv(a, b) == CScale(RDiv(R1, CAbs2(b)), CMul(a, CConj(b)))

(***************************************************************************)
(* Square complex matrices as sequences of rows.                           *)
(***************************************************************************)
Dim(M) == Len(M)
Idx(M) == 1..Len(M)
ConjT(M) == [i \in 1..Dim(M) |-> [j \in 1..Dim(M) |->
        CConj(M[j][i])]]
MAdd(A, B) == [i \in 1..Dim(A) |-> [j \in 1..Dim(A) |->
        CAdd(A[i][j], B[i][j])]]
MScale(r, M) == [i \in 1..Dim(M) |-> [j \in 1..Dim(M) |->
        CScale(r, M[i][j])]]
MDivC(M, c) == [i \in 1..Dim(M) |-> [j \in 1..Dim(M) |->
        CDiv(M[i][j], c)]]
Eye(n) == [i \in 1..n |-> [j \in 1..n |->
        IF i = j THEN CReal(R1) ELSE C0]]
MZero(n) == [i \in 1..n |-> [j \in 1..n |->
        C0]]

RECURSIVE TraceUpTo(_, _)
TraceUpTo(M, k) == IF k = 0 THEN C0 ELSE CAdd(M[k][k], TraceUpTo(M, k - 1))
Trace(M) == TraceUpTo(M, Dim(M))

(***************************************************************************)
(* numpy.linalg.eigh / eigvalsh.  The routine reads the lower triangle and *)
(* the real part of the diagonal.  The spectral decomposition              *)
(* H = SUM_k val_k * proj_k is computed in closed form for matrices with   *)
(* at most one non-zero off-diagonal pair (p, q): the 2x2 block            *)
(* [[a, c], [c*, b]] has eigenvalues m +- r with m = (a+b)/2,              *)
(* r = sqrt(((a-b)/2)^2 + |c|^2) and projectors (I +- (B - m I)/r)/2.      *)
(* V diag(w) V^H of the source equals SUM_k w_k * proj_k.                  *)
(***************************************************************************)
Lower(M) ==
    [i \in 1..Dim(M) |-> [j \in 1..Dim(M) |->
        IF i = j THEN CReal(M[i][i].re)
                              ELSE IF i > j THEN M[i][j] ELSE CConj(M[j][i])]]

OffPairs(H) == {pq \in Idx(H) \X Idx(H) : pq[1] > pq[2] /\ H[pq[1]][pq[2]] # C0}

BlockDisc(H, p, q) ==
    RAdd(RSq(RHalf(RSub(H[p][p].re, H[q][q].re))), CAbs2(H[p][q]))

\* the matrices whose spectral decomposition the closed form covers
EighSupported(M) ==
    LET H == Lower(M)
    IN  /\ Cardinality(OffPairs(H)) <= 1
        /\ \A pq \in OffPairs(H) : RIsSquare(BlockDisc(H, pq[1], pq[2]))

UnitProj(n, k) == [i \in 1..n |-> [j \in 1..n |->
        IF i = k /\ j = k THEN CReal(R1) ELSE C0]]

BlockProj(H, p, q, sgn) ==
    LET m == RHalf(RAdd(H[p][p].re, H[q][q].re))
        r == RSqrt(BlockDisc(H, p, q))
        w == RDiv(RInt(sgn), RMul(RInt(2), r))
    IN  [i \in 1..Dim(H) |-> [j \in 1..Dim(H) |->
        IF i = p /\ j = p THEN CReal(RAdd(Rat(1, 2), RMul(w, RSub(H[p][p].re, m))))
            ELSE IF i = q /\ j = q THEN CReal(RAdd(Rat(1, 2), RMul(w, RSub(H[q][q].re, m))))
            ELSE IF i = p /\ j = q THEN CScale(w, H[p][q])
            ELSE IF i = q /\ j = p THEN CScale(w, H[q][p])
            ELSE C0]]

RECURSIVE DiagParts(_, _)
\* the 1x1 blocks H[k][k], k in T, in increasing order of k
DiagParts(H, T) ==
    IF T = {} THEN <<>>
    ELSE LET k == CHOOSE x \in T : \A y \in T : x <= y
         IN  <<[val |-> H[k][k].re, proj |-> UnitProj(Dim(H), k)]>>
             \o DiagParts(H, T \ {k})

\* sequence of [val, proj]: the eigenvalues with their eigenprojectors
eigh(M) ==
    LET H == Lower(M)
    IN  IF OffPairs(H) = {} THEN DiagParts(H, Idx(H))
        ELSE LET pq == CHOOSE x \in OffPairs(H) : TRUE
                 p == pq[1]
                 q == pq[2]
                 m == RHalf(RAdd(H[p][p].re, H[q][q].re))
                 r == RSqrt(BlockDisc(H, p, q))
             IN  <<[val |-> RSub(m, r), proj |-> BlockProj(H, p, q, -1)],
                   [val |-> RAdd(m, r), proj |-> BlockProj(H, p, q, 1)]>>
                 \o DiagParts(H, Idx(H) \ {p, q})

eigvalsh(M) == LET e == eigh(M) IN [k \in 1..Len(e) |-> e[k].val]

RECURSIVE SpectralSum(_, _, _)
\* SUM_k w[k] * e[k].proj  ==  eigenvectors @ diag(w) @ eigenvectors.conj().T
SpectralSum(e, w, n) ==
    IF e = <<>> THEN MZero(n)
    ELSE MAdd(MScale(Head(w), Head(e).proj), SpectralSum(Tail(e), Tail(w), n))

(***************************************************************************)
(* BlochSolver._ensure_physical  (the Physicality Projector)               *)
(***************************************************************************)
\* abs(trace) > 1e-10 for the complex trace:  |trace|^2 > 1e-20
TraceIsUsable(tr) == RGtPow10(CAbs2(tr), 1, 20)

\* _ensure_physical with the eigenvalue clipping left out
ensure_physical_noclip(rho) ==
    LET n == Dim(rho)
        sym == MScale(Rat(1, 2), MAdd(rho, ConjT(rho)))
        trace == Trace(sym)
        normed == IF TraceIsUsable(trace) THEN MDivC(sym, trace)
                  ELSE MScale(Rat(1, n), Eye(n))
        e == eigh(normed)
        vals == [k \in 1..Len(e) |-> e[k].val]
        total == RSum(vals)
        scaled == [k \in 1..Len(e) |-> RDiv(vals[k], total)]
    IN  SpectralSum(e, scaled, n)

\* _ensure_physical with the clipped eigenvalues not renormalized
ensure_physical_no_renormalize(rho) ==
    LET n == Dim(rho)
        sym == MScale(Rat(1, 2), MAdd(rho, ConjT(rho)))
        trace == Trace(sym)
        normed == IF TraceIsUsable(trace) THEN MDivC(sym, trace)
                  ELSE MScale(Rat(1, n), Eye(n))
        e == eigh(normed)
        clipped == [k \in 1..Len(e) |-> RMax(e[k].val, R0)]
    IN  SpectralSum(e, clipped, n)

\* _ensure_physical with the maximally mixed fallback left out
ensure_physical_no_fallback(rho) ==
    LET n == Dim(rho)
        sym == MScale(Rat(1, 2), MAdd(rho, ConjT(rho)))
        trace == Trace(sym)
        normed == IF TraceIsUsable(trace) THEN MDivC(sym, trace) ELSE sym
        e == eigh(normed)
        clipped == [k \in 1..Len(e) |-> RMax(e[k].val, R0)]
        total == RSum(clipped)
        scaled == [k \in 1..Len(e) |-> RDiv(clipped[k], total)]
    IN  SpectralSum(e, scaled, n)

ensure_physical(rho) ==
    LET n == Dim(rho)
        sym == MScale(Rat(1, 2), MAdd(rho, ConjT(rho)))
        trace == Trace(sym)
        normed == IF TraceIsUsable(trace) THEN MDivC(sym, trace)
                  ELSE MScale(Rat(1, n), Eye(n))
        e == eigh(normed)
        clipped == [k \in 1..Len(e) |-> RMax(e[k].val, R0)]
        total == RSum(clipped)
        scaled == [k \in 1..Len(e) |-> RDiv(clipped[k], total)]
    IN  SpectralSum(e, scaled, n)

(***************************************************************************)
(* BlochSolver.validate_density_matrix, tol = 10^-tolExp                   *)
(***************************************************************************)
RECURSIVE Pow10(_)
Pow10(k) == IF k = 0 THEN 1 ELSE 10 * Pow10(k - 1)

\* numpy's default relative tolerance rtol = 1e-5 of isclose / allclose
RtolExp == 5

CAbs(z) == RSqrt(CAbs2(z))

\* numpy.isclose(a, b, atol=10^-tolExp) for complex a, b:
\*   |a - b| <= atol + rtol * |b|
isclose(a, b, tolExp) ==
    LET d == CSub(a, b)
    IN  IF d = C0 THEN TRUE
        ELSE LET y == RSub(CAbs(d), RMul(Rat(1, Pow10(RtolExp)), CAbs(b)))
             IN  ~ RGtPow10(y, 1, tolExp)

\* 'valid' computed without the eigenvalue check
validate_density_matrix_no_psd(rho, tolExp) ==
    LET rhoH == ConjT(rho)
        is_hermitian == \A i \in Idx(rho) : \A j \in Idx(rho) :
                            isclose(rho[i][j], rhoH[i][j], tolExp)
        trace == Trace(rho).re
        trace_is_one == isclose(CReal(trace), CReal(R1), tolExp)
        eigenvalues == eigvalsh(rho)
        is_psd == \A k \in 1..Len(eigenvalues) :
                      ~ RGtPow10(RNeg(eigenvalues[k]), 1, tolExp)
    IN  [hermitian |-> is_hermitian,
         trace_one |-> trace_is_one,
         positive_semidefinite |-> is_psd,
         valid |-> is_hermitian /\ trace_is_one]

validate_density_matrix(rho, tolExp) ==
    LET rhoH == ConjT(rho)
        is_hermitian == \A i \in Idx(rho) : \A j \in Idx(rho) :
                            isclose(rho[i][j], rhoH[i][j], tolExp)
        trace == Trace(rho).re
        trace_is_one == isclose(CReal(trace), CReal(R1), tolExp)
        eigenvalues == eigvalsh(rho)
        is_psd == \A k \in 1..Len(eigenvalues) :
                      ~ RGtPow10(RNeg(eigenvalues[k]), 1, tolExp)
    IN  [hermitian |-> is_hermitian,
         trace_one |-> trace_is_one,
         positive_semidefinite |-> is_psd,
         valid |-> is_hermitian /\ trace_is_one /\ is_psd]

\* default tolerance of validate_density_matrix: tol = 1e-6
DefaultTolExp == 6

\* TwoLevelBlochSolver.validate_density_matrix: the same text
two_level_validate_density_matrix(rho, tolExp) == validate_density_matrix(rho, tolExp)

(***************************************************************************)
(* The root-finder scipy.optimize.fsolve(equations, x0), full_output off.  *)
(* An outcome is [status, x]: "converged" and "not_converged" both return  *)
(* the final iterate x (non-convergence only emits a warning), "raised"    *)
(* propagates an exception.  x is a vector of 8 reals.                     *)
(***************************************************************************)
NoX == <<>>
NoRho == <<>>
NoVal == <<>>

\* populations (rho11, rho22) the root-finder may report
PopPairs ==
    { <<Rat(9, 20), Rat(9, 20)>>, <<Rat(1, 2), Rat(1, 2)>>, <<Rat(1, 2), Rat(2, 5)>>,
      <<Rat(-1, 5), Rat(3, 5)>>, <<Rat(3, 5), Rat(3, 5)>>, <<R1, R0>> }

\* non-zero coherence values the root-finder may report
CohVals ==
    { Cx(Rat(1, 2), R0), Cx(Rat(-1, 2), R0), Cx(Rat(3, 5), Rat(4, 5)),
      Cx(R0, Rat(3, 10)), Cx(Rat(6, 5), R0) }

\* the 8-vector with populations pp and the complex value c in slot pair s
\* (s = 1: x[3], x[4];  s = 2: x[5], x[6];  s = 3: x[7], x[8];  s = 0: none)
XVec(pp, s, c) ==
    [k \in 1..8 |->
        IF k = 1 THEN pp[1] ELSE IF k = 2 THEN pp[2]
        ELSE IF s # 0 /\ k = 2 * s + 1 THEN c.re
        ELSE IF s # 0 /\ k = 2 * s + 2 THEN c.im
        ELSE R0]

XRaw ==
    {XVec(pp, 0, C0) : pp \in PopPairs}
    \cup {XVec(ppsc[1], ppsc[2], ppsc[3]) : ppsc \in PopPairs \X (1..3) \X CohVals}

(***************************************************************************)
(* BlochSolver.solve_steady_state                                          *)
(***************************************************************************)
\* initial_guess of solve_steady_state (the 8 unknowns)
initial_guess == <<Rat(9, 20), Rat(9, 20), R0, R0, R0, R0, R0, R0>>

\* the 3x3 matrix solve_steady_state builds from its nine real components
BlochMatrix(rho11, rho22, rho33, r12re, r12im, r13re, r13im, r23re, r23im) ==
    << <<CReal(rho11), Cx(r12re, r12im), Cx(r13re, r13im)>>,
       <<Cx(r12re, RNeg(r12im)), CReal(rho22), Cx(r23re, r23im)>>,
       <<Cx(r13re, RNeg(r13im)), Cx(r23re, RNeg(r23im)), CReal(rho33)>> >>

\* try-branch: unpack x_solution
BlochAssemble(x) ==
    BlochMatrix(x[1], x[2], RSub(RSub(R1, x[1]), x[2]),
                x[3], x[4], x[5], x[6], x[7], x[8])

\* except-branch: the hard-coded fallback values
BlochFallback ==
    BlochMatrix(Rat(45, 100), Rat(45, 100), Rat(1, 10), R0, R0, R0, R0, R0, R0)

\* outcomes of the fsolve call inside solve_steady_state
BlochOutcomes ==
    {[status |-> "raised", x |-> NoX]}
    \cup {[status |-> st, x |-> x] :
            st \in {"converged", "not_converged"},
            x \in {y \in XRaw : EighSupported(BlochAssemble(y))}}

\* the matrix handed to _ensure_physical, by fsolve outcome
BlochPreProjection(o) ==
    IF o.status = "raised" THEN BlochFallback ELSE BlochAssemble(o.x)

solve_steady_state(o) == ensure_physical(BlochPreProjection(o))

\* solve_steady_state tabulated over the root-finder's outcomes
SteadyStateTable == [o \in BlochOutcomes |-> solve_steady_state(o)]

(***************************************************************************)
(* bloch_equations.solve_density_matrix_double_lambda                      *)
(***************************************************************************)
\* x0 of solve_density_matrix_double_lambda
x0 == <<Rat(1, 2), Rat(2, 5), Rat(1, 100), Rat(1, 100), Rat(1, 100),
        Rat(1, 100), Rat(1, 100), Rat(1, 100)>>

\* rho built from sol = (rho11, rho22, rho_1e, rho_2e, rho_12)
DLAssemble(x) ==
    LET rho_ee == RSub(RSub(R1, x[1]), x[2])
        rho_1e == Cx(x[3], x[4])
        rho_2e == Cx(x[5], x[6])
        rho_12 == Cx(x[7], x[8])
    IN  << <<CReal(x[1]), rho_12, rho_1e>>,
           <<CConj(rho_12), CReal(x[2]), rho_2e>>,
           <<CConj(rho_1e), CConj(rho_2e), CReal(rho_ee)>> >>

\* the value returned when fsolve returns x (an exception propagates)
solve_density_matrix_double_lambda(x) == DLAssemble(x)

(***************************************************************************)
(* The residual functions handed to the root-finder.                       *)
(***************************************************************************)
\* BlochSolver._rhs on the 9 components rho_flat; p holds the eight rates
rhs(rho_flat, p) ==
    LET rho11 == CReal(rho_flat[1])
        rho22 == CReal(rho_flat[2])
        rho33 == CReal(rho_flat[3])
        rho12 == Cx(rho_flat[4], rho_flat[5])
        rho13 == Cx(rho_flat[6], rho_flat[7])
        rho23 == Cx(rho_flat[8], rho_flat[9])
        iOp == CScale(RHalf(p.Omega_p), CI)
        iOc == CScale(RHalf(p.Omega_c), CI)
        drho11_dt == CAdd(CScale(p.Gamma_e1, rho33),
                          CMul(iOp, CSub(rho13, CConj(rho13))))
        drho22_dt == CAdd(CScale(p.Gamma_e2, rho33),
                          CMul(iOc, CSub(rho23, CConj(rho23))))
        drho33_dt == CSub(CSub(CScale(RNeg(p.Gamma), rho33),
                               CMul(iOp, CSub(rho13, CConj(rho13)))),
                          CMul(iOc, CSub(rho23, CConj(rho23))))
        drho12_dt == CSub(CAdd(CMul(Cx(RNeg(p.gamma_deph),
                                       RSub(p.Delta_p, p.Delta_c)), rho12),
                               CMul(iOp, CConj(rho23))),
                          CMul(iOc, rho13))
        drho13_dt == CSub(CAdd(CMul(Cx(RSub(RNeg(RHalf(p.Gamma)), p.gamma_deph),
                                       p.Delta_p), rho13),
                               CMul(iOp, CSub(rho33, rho11))),
                          CMul(iOc, rho12))
        drho23_dt == CSub(CAdd(CMul(Cx(RSub(RNeg(RHalf(p.Gamma)), p.gamma_deph),
                                       p.Delta_c), rho23),
                               CMul(iOc, CSub(rho33, rho22))),
                          CMul(iOp, rho12))
    IN  << drho11_dt.re, drho22_dt.re, drho33_dt.re,
           drho12_dt.re, drho12_dt.im, drho13_dt.re, drho13_dt.im,
           drho23_dt.re, drho23_dt.im >>

\* rho_flat as equations(x) of solve_steady_state fills it:
\* rho_flat[:8] = x, then rho_flat[2] = 1.0 - x[0] - x[1]
equations_rho_flat(x) ==
    [k \in 1..9 |->
        IF k = 3 THEN RSub(RSub(R1, x[1]), x[2])
        ELSE IF k <= 8 THEN x[k]
        ELSE R0]

\* equations(x) of solve_steady_state: eqs[:2] followed by eqs[3:]
bloch_equations(x, p) ==
    LET eqs == rhs(equations_rho_flat(x), p)
    IN  SubSeq(eqs, 1, 2) \o SubSeq(eqs, 4, 9)

\* equations(x) of solve_density_matrix_double_lambda
dl_equations(x, pump_rabi, probe_rabi, pump_detuning, probe_detuning, gamma, gamma_g) ==
    LET omega_p == RHalf(pump_rabi)
        omega_c == RHalf(probe_rabi)
        rho11 == CReal(x[1])
        rho22 == CReal(x[2])
        rho_ee == CReal(RSub(RSub(R1, x[1]), x[2]))
        rho_1e == Cx(x[3], x[4])
        rho_2e == Cx(x[5], x[6])
        rho_12 == Cx(x[7], x[8])
        iop == CScale(omega_p, CI)
        ioc == CScale(omega_c, CI)
        drho11_dt == CAdd(CScale(gamma, rho_ee),
                          CMul(iop, CSub(rho_1e, CConj(rho_1e))))
        drho22_dt == CAdd(CScale(gamma, rho_ee),
                          CMul(ioc, CSub(rho_2e, CConj(rho_2e))))
        drho_1e_dt == CSub(CAdd(CMul(Cx(RNeg(RHalf(gamma)), RNeg(pump_detuning)),
                                     rho_1e),
                                CMul(iop, CSub(rho11, rho_ee))),
                           CMul(ioc, rho_12))
        drho_2e_dt == CSub(CAdd(CMul(Cx(RNeg(RHalf(gamma)), RNeg(probe_detuning)),
                                     rho_2e),
                                CMul(ioc, CSub(rho22, rho_ee))),
                           CMul(iop, CConj(rho_12)))
        drho_12_dt == CSub(CAdd(CScale(RNeg(gamma_g), rho_12),
                                CMul(iop, rho_2e)),
                           CMul(ioc, rho_1e))
    IN  << drho11_dt.re, drho22_dt.re, drho_1e_dt.re, drho_1e_dt.im,
           drho_2e_dt.re, drho_2e_dt.im, drho_12_dt.re, drho_12_dt.im >>

(***************************************************************************)
(* Physical constants (rb_eit/constants.py) and calculator settings, in    *)
(* scaled units in which the excited decay rate is 2.                      *)
(***************************************************************************)
EPSILON_0 == Rat(1, 2)
HBAR == Rat(1, 3)
C_LIGHT == RInt(3)

\* FWMSpectraCalculator fields and system.transition_2.dipole_moment
number_density == RInt(2)
interaction_length == Rat(1, 2)
ground_dephasing_rate == R0
excited_decay_rate == RInt(2)
dipole_moment == RInt(1)

\* default beam intensities of the sweep routines
default_pump_intensity == RInt(2)
default_probe_intensity == RInt(1)

(***************************************************************************)
(* bloch_equations.density_matrix_to_chi3_fwm / fwm_signal_intensity       *)
(***************************************************************************)
\* abs(denominator) < 1e-30:  |denominator|^2 < 1e-60
\* the guard left out
DenominatorIsZero_never(den) == FALSE

DenominatorIsZero(den) == RLtPow10(CAbs2(den), 1, 60)

\* the division of chi3 = prefactor * rho_12 / denominator is reached with a
\* denominator of exactly zero: numpy gives nan with a RuntimeWarning
Chi3DividesByZero(probe_rabi, probe_detuning, gamma) ==
    LET denominator == CScale(RHalf(probe_rabi), Cx(probe_detuning, RHalf(gamma)))
    IN  ~ DenominatorIsZero(denominator) /\ denominator = C0

\* prefactor with number_density squared
density_matrix_to_chi3_fwm_density_sq(rho, probe_rabi, probe_detuning, gamma, dipole, density) ==
    LET rho_12 == rho[1][2]
        omega_c == RHalf(probe_rabi)
        denominator == CScale(omega_c, Cx(probe_detuning, RHalf(gamma)))
        prefactor == RDiv(RMul(RSq(density), RSq(dipole)), RMul(EPSILON_0, HBAR))
    IN  IF DenominatorIsZero(denominator) THEN C0
        ELSE CDiv(CScale(prefactor, rho_12), denominator)

density_matrix_to_chi3_fwm(rho, probe_rabi, probe_detuning, gamma, dipole, density) ==
    LET rho_12 == rho[1][2]
        omega_c == RHalf(probe_rabi)
        denominator == CScale(omega_c, Cx(probe_detuning, RHalf(gamma)))
        prefactor == RDiv(RMul(density, RSq(dipole)), RMul(EPSILON_0, HBAR))
    IN  IF DenominatorIsZero(denominator) THEN C0
        ELSE CDiv(CScale(prefactor, rho_12), denominator)

\* chi3_eff taken as the real part of chi3 ** 2
fwm_signal_intensity_real_square(chi3, pump_intensity, probe_intensity, length) ==
    LET chi3_eff == RSub(RSq(chi3.re), RSq(chi3.im))
    IN  RMul(RMul(RMul(RMul(EPSILON_0, C_LIGHT), chi3_eff),
                  RMul(RSq(pump_intensity), probe_intensity)),
             RSq(length))

\* interaction_length not squared
fwm_signal_intensity_linear_length(chi3, pump_intensity, probe_intensity, length) ==
    LET chi3_eff == CAbs2(chi3)
    IN  RMul(RMul(RMul(RMul(EPSILON_0, C_LIGHT), chi3_eff),
                  RMul(RSq(pump_intensity), probe_intensity)),
             length)

fwm_signal_intensity(chi3, pump_intensity, probe_intensity, length) ==
    LET chi3_eff == CAbs2(chi3)
    IN  RMul(RMul(RMul(RMul(EPSILON_0, C_LIGHT), chi3_eff),
                  RMul(RSq(pump_intensity), probe_intensity)),
             RSq(length))

(***************************************************************************)
(* numpy arrays: [shape, data], data in row-major order.                   *)
(***************************************************************************)
RECURSIVE Prod(_)
Prod(shape) == IF shape = <<>> THEN 1 ELSE Head(shape) * Prod(Tail(shape))

\* numpy.zeros(shape) with every entry z
Zeros(shape, z) == [shape |-> shape, data |-> [k \in 1..Prod(shape) |-> z]]
\* len(a): the first dimension
ALen(a) == a.shape[1]
\* a with the entry at flat position k (1-based, row-major) set to v
ASet(a, k, v) == [a EXCEPT !.data[k] = v]

\* numpy.linspace with endpoint=False
linspace_no_endpoint(start, stop, num) ==
    [i \in 1..num |->
        RAdd(start, RMul(RInt(i - 1), RDiv(RSub(stop, start), RInt(num))))]

\* numpy.linspace(start, stop, num), num >= 0
linspace(start, stop, num) ==
    IF num = 1 THEN <<start>>
    ELSE [i \in 1..num |->
            RAdd(start, RMul(RInt(i - 1), RDiv(RSub(stop, start), RInt(num - 1))))]

(***************************************************************************)
(* ParameterSweepResult.__post_init__                                      *)
(***************************************************************************)
None == "None"

\* "ok" when the constructor returns, "ValueError" when it raises
post_init(r) ==
    IF r.secondary_parameter_name # None
    THEN LET expected_shape == <<Len(r.parameter_values),
                                 Len(r.secondary_parameter_values)>>
         IN  IF r.chi3_values.shape # expected_shape THEN "ValueError"
             ELSE IF r.intensity_values.shape # expected_shape THEN "ValueError"
             ELSE "ok"
    ELSE IF ALen(r.chi3_values) # Len(r.parameter_values) THEN "ValueError"
         ELSE IF ALen(r.intensity_values) # Len(r.parameter_values) THEN "ValueError"
         ELSE "ok"

(***************************************************************************)
(* ParameterSweep._build_params_dict                                       *)
(***************************************************************************)
ParamKeys == {"pump_rabi", "probe_rabi", "pump_detuning", "probe_detuning"}

param_map ==
    [n \in {"probe_detuning", "pump_rabi", "pump_rabi_frequency",
            "pump_detuning", "coupling_detuning"} |->
        IF n = "pump_rabi_frequency" THEN "pump_rabi"
        ELSE IF n = "coupling_detuning" THEN "pump_detuning"
        ELSE n]

\* _build_params_dict with the two values handed to the wrong names
build_params_dict_swapped(s, param1_name, param1_value, param2_name, param2_value) ==
    LET base == [k \in ParamKeys |-> s[k]]
    IN  IF param1_name \notin DOMAIN param_map \/ param2_name \notin DOMAIN param_map
        THEN [status |-> "ValueError", params |-> base]
        ELSE [status |-> "ok",
              params |-> [[base EXCEPT ![param_map[param1_name]] = param2_value]
                             EXCEPT ![param_map[param2_name]] = param1_value]]

\* _build_params_dict applying the second name first, so that the first value
\* is the one kept when both names denote the same parameter
build_params_dict_first_wins(s, param1_name, param1_value, param2_name, param2_value) ==
    LET base == [k \in ParamKeys |-> s[k]]
    IN  IF param1_name \notin DOMAIN param_map \/ param2_name \notin DOMAIN param_map
        THEN [status |-> "ValueError", params |-> base]
        ELSE [status |-> "ok",
              params |-> [[base EXCEPT ![param_map[param2_name]] = param2_value]
                             EXCEPT ![param_map[param1_name]] = param1_value]]

\* s: the system's pump and probe fields as read at the call
build_params_dict(s, param1_name, param1_value, param2_name, param2_value) ==
    LET params == [pump_rabi |-> s.pump_rabi, probe_rabi |-> s.probe_rabi,
                   pump_detuning |-> s.pump_detuning,
                   probe_detuning |-> s.probe_detuning]
    IN  IF param1_name \notin DOMAIN param_map
        THEN [status |-> "ValueError", params |-> params]
        ELSE LET p1 == [params EXCEPT ![param_map[param1_name]] = param1_value]
             IN  IF param2_name \notin DOMAIN param_map
                 THEN [status |-> "ValueError", params |-> p1]
                 ELSE [status |-> "ok",
                       params |-> [p1 EXCEPT ![param_map[param2_name]] = param2_value]]

(***************************************************************************)
(* State.                                                                  *)
(***************************************************************************)
VARIABLES
    sys,    \* DoubleLambdaSystem: the pump and probe LaserField values
    ret,    \* the last solver or library function call: arguments and return
    job,    \* the ParameterSweep call in progress, or the last one ended
    memo,   \* root-finder outcomes of the current call, by solver arguments
    obj     \* a ParameterSweepResult a caller constructs and holds

vars == <<sys, ret, job, memo, obj>>

\* detunings and Rabi frequencies, in units of half the excited decay rate
DetVals == {R0, R1}
NoArg == <<>>

SysConfigs ==
    [pump_rabi : {RInt(2)}, probe_rabi : {R0, RInt(2)},
     pump_detuning : {R1}, probe_detuning : {R1}]

NoCall ==
    [op |-> "none", status |-> "none", arg |-> NoArg,
     fsolve |-> [status |-> "none", x |-> NoX], pre |-> NoRho, rho |-> NoRho]

NoMemo == [p \in {} |-> NoVal]

NoJob ==
    [op |-> "none", pc |-> "idle", names |-> <<>>, values1 |-> <<>>,
     values2 |-> <<>>, num_points |-> 0, arg |-> NoArg, snap |-> NoVal, pass |-> 0, k |-> 0,
     solves |-> 0, chi3 |-> NoVal, intensity |-> NoVal, cellp |-> <<>>,
     error |-> "none", result |-> NoVal]

NoObj == [state |-> "none", r |-> NoVal, writes |-> 0]

Init ==
    /\ sys \in SysConfigs
    /\ ret = NoCall
    /\ job = NoJob
    /\ memo = NoMemo
    /\ obj = NoObj

(***************************************************************************)
(* BlochSolver(system).solve_steady_state(probe_detuning)                  *)
(***************************************************************************)
\* what solve_steady_state reads: the system's fields, with the explicit
\* probe_detuning, when one is given, in the place of the probe's
SolveArguments(s, probe_detuning) ==
    [Omega_p |-> s.pump_rabi, Omega_c |-> s.probe_rabi, Delta_p |-> s.pump_detuning,
     Delta_c |-> IF probe_detuning = NoArg THEN s.probe_detuning ELSE probe_detuning]

\* a solve_steady_state that applied an explicit probe_detuning by storing it
\* in the system's probe field
BlochSolve_sets_probe_detuning ==
    \E pd \in {NoArg} \cup DetVals :
    \E o \in BlochOutcomes :
        /\ ret' = [op |-> "solve_steady_state", status |-> "ok", arg |-> pd,
                   fsolve |-> o, pre |-> BlochPreProjection(o),
                   rho |-> SteadyStateTable[o]]
        /\ sys' = [sys EXCEPT !.probe_detuning = SolveArguments(sys, pd).Delta_c]
        /\ UNCHANGED <<job, memo, obj>>

BlochSolve ==
    \E pd \in {NoArg} \cup DetVals :
    \E o \in BlochOutcomes :
        /\ ret' = [op |-> "solve_steady_state", status |-> "ok", arg |-> pd,
                   fsolve |-> o, pre |-> BlochPreProjection(o),
                   rho |-> SteadyStateTable[o]]
        /\ UNCHANGED <<sys, job, memo, obj>>

(***************************************************************************)
(* solve_density_matrix_double_lambda(...) called directly                 *)
(***************************************************************************)
DLOutcomes ==
    {[status |-> "raised", x |-> NoX]}
    \cup {[status |-> st, x |-> x] :
            st \in {"converged", "not_converged"},
            x \in {y \in XRaw : EighSupported(DLAssemble(y))}}

DLSolve ==
    \E pd \in DetVals :
    \E o \in DLOutcomes :
        /\ ret' = IF o.status = "raised"
                  THEN [op |-> "solve_density_matrix_double_lambda",
                        status |-> "raised", arg |-> pd, fsolve |-> o,
                        pre |-> NoRho, rho |-> NoRho]
                  ELSE [op |-> "solve_density_matrix_double_lambda",
                        status |-> "ok", arg |-> pd, fsolve |-> o,
                        pre |-> DLAssemble(o.x),
                        rho |-> solve_density_matrix_double_lambda(o.x)]
        /\ UNCHANGED <<sys, job, memo, obj>>

SolveNext == BlochSolve \/ DLSolve

SolveSpec == Init /\ [][SolveNext]_vars

(***************************************************************************)
(* ParameterSweep: sweep_2d, sweep_probe_detuning,                         *)
(* sweep_pump_rabi_frequency, sweep_pump_detuning, with the                *)
(* FWMSpectraCalculator loops they run.  One step per grid point.          *)
(***************************************************************************)
\* outcomes of the fsolve call inside solve_density_matrix_double_lambda
\* that the sweeps are explored with
DLSweepOutcomes ==
    { [status |-> "raised", x |-> NoX],
      [status |-> "converged",
       x |-> XVec(<<Rat(1, 2), Rat(1, 2)>>, 3, Cx(Rat(-1, 2), R0))],
      [status |-> "not_converged",
       x |-> XVec(<<Rat(1, 2), Rat(1, 2)>>, 3, Cx(Rat(3, 5), Rat(4, 5)))] }

\* a root-finder whose outcome for the same arguments may differ between calls
fsolve_unrepeatable(m, p) == DLSweepOutcomes

\* fsolve is deterministic: the same arguments give the same outcome
fsolve(m, p) == IF p \in DOMAIN m THEN {m[p]} ELSE DLSweepOutcomes
Remember(m, p, o) == [q \in DOMAIN m \cup {p} |-> IF q = p THEN o ELSE m[q]]

SweepNames ==
    {"probe_detuning", "pump_rabi", "pump_rabi_frequency", "pump_detuning",
     "coupling_detuning", "invalid_param"}

\* the parameter arrays a 2D sweep is called with
Axis1(len) == [i \in 1..len |-> IF i % 2 = 1 THEN R0 ELSE RInt(2)]
Axis2(len) == [i \in 1..len |-> IF i % 2 = 1 THEN R1 ELSE RInt(3)]

\* min / max arguments of the 1D sweeps
RangeVals == {R0, R1, RInt(2)}

Is1D(op) ==
    op \in {"sweep_probe_detuning", "sweep_pump_rabi_frequency", "sweep_pump_detuning"}

NCells(j) ==
    IF j.op = "sweep_2d" THEN Len(j.values1) * Len(j.values2) ELSE Len(j.values1)

\* sweep_2d called with parameter names drawn from names
Sweep2DCall(names) ==
    \E n1 \in names, n2 \in names :
    \E len1 \in 0..MaxPoints, len2 \in 0..MaxPoints :
        /\ job.pc = "idle"
        /\ job' = [NoJob EXCEPT
                     !.op = "sweep_2d", !.pc = "run", !.names = <<n1, n2>>,
                     !.values1 = Axis1(len1), !.values2 = Axis2(len2),
                     \* the system's fields when the call started
                     !.snap = sys,
                     !.chi3 = Zeros(<<len1, len2>>, C0),
                     !.intensity = Zeros(<<len1, len2>>, R0)]
        /\ UNCHANGED <<sys, ret, memo, obj>>

Sweep2DStart == Sweep2DCall(SweepNames)

Sweep1DStart ==
    \E op \in {"sweep_probe_detuning", "sweep_pump_rabi_frequency",
               "sweep_pump_detuning"} :
    \E lo \in RangeVals, hi \in RangeVals :
    \E num_points \in 0..MaxPoints :
        /\ job.pc = "idle"
        /\ job' = [NoJob EXCEPT
                     !.op = op, !.pc = "run", !.pass = 1,
                     !.names = <<lo, hi>>, !.num_points = num_points,
                     !.values1 = linspace(lo, hi, num_points),
                     \* probe_detuning: float = 0.0 of the pump sweeps
                     !.arg = R0,
                     !.snap = sys,
                     !.chi3 = Zeros(<<num_points>>, C0),
                     !.intensity = Zeros(<<num_points>>, R0)]
        /\ UNCHANGED <<sys, ret, memo, obj>>

\* the arguments the next grid point's solve is called with
CellParams(j, s) ==
    LET v == j.values1[j.k + 1]
    IN  IF j.op = "sweep_2d"
        THEN build_params_dict(s, j.names[1],
                               j.values1[(j.k \div Len(j.values2)) + 1],
                               j.names[2],
                               j.values2[(j.k % Len(j.values2)) + 1])
        ELSE [status |-> "ok",
              params |->
                IF j.op = "sweep_probe_detuning"
                THEN [pump_rabi |-> j.snap.pump_rabi, probe_rabi |-> j.snap.probe_rabi,
                      pump_detuning |-> j.snap.pump_detuning, probe_detuning |-> v]
                ELSE IF j.op = "sweep_pump_rabi_frequency"
                THEN [pump_rabi |-> v, probe_rabi |-> j.snap.probe_rabi,
                      pump_detuning |-> j.snap.pump_detuning, probe_detuning |-> j.arg]
                ELSE [pump_rabi |-> j.snap.pump_rabi, probe_rabi |-> j.snap.probe_rabi,
                      pump_detuning |-> v, probe_detuning |-> j.arg]]

\* chi3 of one grid point from the root-finder's solution x
CellChi3(p, x) ==
    density_matrix_to_chi3_fwm(solve_density_matrix_double_lambda(x),
                               p.probe_rabi, p.probe_detuning,
                               excited_decay_rate, dipole_moment, number_density)

CellIntensity(chi3) ==
    fwm_signal_intensity(chi3, default_pump_intensity, default_probe_intensity,
                         interaction_length)

\* the job after the grid point with arguments p got solution x
CellDone(j, p, x) ==
    LET chi3 == CellChi3(p, x)
    IN  [j EXCEPT !.k = @ + 1, !.solves = @ + 1,
                  !.cellp = Append(@, p),
                  !.chi3 = ASet(@, j.k + 1, chi3),
                  !.intensity = IF j.op = "sweep_probe_detuning" THEN @
                                ELSE ASet(@, j.k + 1, CellIntensity(chi3))]

SweepCell ==
    /\ job.pc = "run"
    /\ job.k < NCells(job)
    /\ LET b == CellParams(job, sys)
       IN  IF b.status # "ok"
           THEN /\ job' = [job EXCEPT !.pc = "raised", !.error = "ValueError"]
                /\ UNCHANGED memo
           ELSE \E o \in fsolve(memo, b.params) :
                   /\ memo' = Remember(memo, b.params, o)
                   /\ job' = IF o.status = "raised"
                             THEN [job EXCEPT !.pc = "raised", !.error = "fsolve",
                                              !.solves = @ + 1]
                             ELSE CellDone(job, b.params, o.x)
    /\ UNCHANGED <<sys, ret, obj>>

\* sweep_probe_detuning: compute_fwm_intensity_spectrum has run its
\* compute_chi3_spectrum loop; it derives the intensities, and the second
\* compute_chi3_spectrum call starts, reading the system again
SweepNextPass ==
    /\ job.pc = "run"
    /\ job.op = "sweep_probe_detuning"
    /\ job.pass = 1
    /\ job.k = NCells(job)
    /\ job' = [job EXCEPT
                 !.pass = 2, !.k = 0, !.snap = sys,
                 !.intensity = [@ EXCEPT !.data =
                                  [k \in 1..Len(job.chi3.data) |->
                                      CellIntensity(job.chi3.data[k])]],
                 !.chi3 = Zeros(job.chi3.shape, C0)]
    /\ UNCHANGED <<sys, ret, memo, obj>>

\* the ParameterSweepResult the sweep hands to the constructor
SweepResult(j) ==
    [parameter_name |->
        IF j.op = "sweep_2d" THEN j.names[1]
        ELSE IF j.op = "sweep_probe_detuning" THEN "probe_detuning"
        ELSE IF j.op = "sweep_pump_rabi_frequency" THEN "pump_rabi_frequency"
        ELSE "pump_detuning",
     parameter_values |-> j.values1,
     chi3_values |-> j.chi3,
     intensity_values |-> j.intensity,
     fixed_parameters |->
        [pump_intensity |-> default_pump_intensity,
         probe_intensity |-> default_probe_intensity,
         number_density |-> number_density,
         interaction_length |-> interaction_length],
     secondary_parameter_name |-> IF j.op = "sweep_2d" THEN j.names[2] ELSE None,
     secondary_parameter_values |-> IF j.op = "sweep_2d" THEN j.values2 ELSE None,
     metadata |-> IF j.op = "sweep_2d" THEN "2D" ELSE "rad/s"]

SweepFinish ==
    /\ job.pc = "run"
    /\ job.k = NCells(job)
    /\ job.op = "sweep_probe_detuning" => job.pass = 2
    /\ LET r == SweepResult(job)
       IN  job' = IF post_init(r) = "ok"
                  THEN [job EXCEPT !.pc = "done", !.result = r]
                  ELSE [job EXCEPT !.pc = "raised", !.error = "ValueError"]
    /\ UNCHANGED <<sys, ret, memo, obj>>

\* the call has returned or raised; the next call starts afresh
SweepReturn ==
    /\ job.pc \in {"done", "raised"}
    /\ job' = NoJob
    /\ memo' = NoMemo
    /\ UNCHANGED <<sys, ret, obj>>

SweepNext ==
    \/ Sweep2DStart
    \/ Sweep1DStart
    \/ SweepCell
    \/ SweepNextPass
    \/ SweepFinish
    \/ SweepReturn

SweepSpec == Init /\ [][SweepNext]_vars

(***************************************************************************)
(* The grid loop of sweep_2d run by a pool of workers: the loop body is    *)
(* applied to the cells in any order.  The pool run repeats the ended      *)
(* sequential call in job with the same arguments and the same             *)
(* root-finder (memo), so the two runs can be compared cell by cell.       *)
(***************************************************************************)
\* the flat position of chi3_grid[i, j] for cell number k = i * n2 + j
GridSlot_arrival(r, k) == Len(r.order) + 1

GridSlot(r, k) == k + 1

\* the loop body applied to cell number k
PoolCellParams(r, s, k) ==
    build_params_dict(s, r.names[1], r.values1[(k \div Len(r.values2)) + 1],
                      r.names[2], r.values2[(k % Len(r.values2)) + 1])

PoolCellDone(r, k, p, x) ==
    LET chi3 == CellChi3(p, x)
    IN  [r EXCEPT !.order = Append(@, k),
                  !.chi3 = ASet(@, GridSlot(r, k), chi3),
                  !.intensity = ASet(@, GridSlot(r, k), CellIntensity(chi3))]

PoolStart ==
    /\ job.op = "sweep_2d"
    /\ job.pc \in {"done", "raised"}
    /\ ret.op = "none"
    /\ ret' = [op |-> "sweep_2d (pool)", pc |-> "run", status |-> "none",
               names |-> job.names, values1 |-> job.values1,
               values2 |-> job.values2, order |-> <<>>,
               chi3 |-> Zeros(<<Len(job.values1), Len(job.values2)>>, C0),
               intensity |-> Zeros(<<Len(job.values1), Len(job.values2)>>, R0)]
    /\ UNCHANGED <<sys, job, memo, obj>>

PoolCell ==
    /\ ret.op = "sweep_2d (pool)"
    /\ ret.pc = "run"
    /\ \E k \in 0..(Len(ret.values1) * Len(ret.values2) - 1) :
        /\ \A n \in 1..Len(ret.order) : ret.order[n] # k
        /\ LET b == PoolCellParams(ret, sys, k)
           IN  IF b.status # "ok"
               THEN /\ ret' = [ret EXCEPT !.pc = "raised", !.status = "ValueError"]
                    /\ UNCHANGED memo
               ELSE \E o \in fsolve(memo, b.params) :
                       /\ memo' = Remember(memo, b.params, o)
                       /\ ret' = IF o.status = "raised"
                                 THEN [ret EXCEPT !.pc = "raised", !.status = "fsolve"]
                                 ELSE PoolCellDone(ret, k, b.params, o.x)
    /\ UNCHANGED <<sys, job, obj>>

PoolFinish ==
    /\ ret.op = "sweep_2d (pool)"
    /\ ret.pc = "run"
    /\ Len(ret.order) = Len(ret.values1) * Len(ret.values2)
    /\ ret' = [ret EXCEPT !.pc = "done", !.status = "ok"]
    /\ UNCHANGED <<sys, job, memo, obj>>

\* both runs have ended
PoolReturn ==
    /\ job.pc \in {"done", "raised"}
    /\ ret.op = "sweep_2d (pool)"
    /\ ret.pc \in {"done", "raised"}
    /\ job' = NoJob
    /\ memo' = NoMemo
    /\ ret' = NoCall
    /\ UNCHANGED <<sys, obj>>

PoolNext ==
    \/ Sweep2DStart
    \/ SweepCell
    \/ SweepFinish
    \/ PoolStart
    \/ PoolCell
    \/ PoolFinish
    \/ PoolReturn

PoolSpec == Init /\ [][PoolNext]_vars

(***************************************************************************)
(* LaserField and the DoubleLambdaSystem calls that write the pump and     *)
(* probe fields.                                                           *)
(***************************************************************************)
\* LaserField._validate on (rabi_frequency, default polarization, no
\* intensity): "ok" when __post_init__ returns, "ValueError" when it raises
laser_field_validate(rabi_frequency) ==
    IF RLt(rabi_frequency, R0) THEN "ValueError" ELSE "ok"

\* LaserField.set_intensity: the Rabi frequency it assigns
set_intensity(intensity, dipole_moment_arg) ==
    LET electric_field == RSqrt(RDiv(RMul(RInt(2), intensity),
                                     RMul(EPSILON_0, C_LIGHT)))
    IN  RDiv(RMul(dipole_moment_arg, electric_field), HBAR)

RabiArgs == {RInt(-1), R0, RInt(2)}
DetuningArgs == {R0, R1}
\* intensities >= 0 for which 2 I / (EPSILON_0 C) has a rational square root
IntensityArgVals == {R0, Rat(3, 4), RInt(3)}
DipoleArgs == {RInt(1), RInt(-1)}

\* DoubleLambdaSystem(pump_rabi_frequency, probe_rabi_frequency,
\* pump_detuning, probe_detuning): the pump field is built first
SystemConstruct ==
    \E pr \in RabiArgs, cr \in RabiArgs, pd \in DetuningArgs, cd \in DetuningArgs :
        LET status == IF laser_field_validate(pr) # "ok" THEN "ValueError"
                      ELSE laser_field_validate(cr)
        IN  /\ ret' = [op |-> "DoubleLambdaSystem", status |-> status,
                       arg |-> <<pr, cr, pd, cd>>]
            /\ sys' = IF status = "ok"
                      THEN [pump_rabi |-> pr, probe_rabi |-> cr,
                            pump_detuning |-> pd, probe_detuning |-> cd]
                      ELSE sys
            /\ UNCHANGED <<job, memo, obj>>

SetPumpParameters ==
    \E rabi_frequency \in RabiArgs, detuning \in DetuningArgs :
        /\ sys' = [sys EXCEPT !.pump_rabi = rabi_frequency,
                              !.pump_detuning = detuning]
        /\ ret' = [op |-> "set_pump_parameters", status |-> "ok",
                   arg |-> <<rabi_frequency, detuning>>]
        /\ UNCHANGED <<job, memo, obj>>

SetProbeParameters ==
    \E rabi_frequency \in RabiArgs, detuning \in DetuningArgs :
        /\ sys' = [sys EXCEPT !.probe_rabi = rabi_frequency,
                              !.probe_detuning = detuning]
        /\ ret' = [op |-> "set_probe_parameters", status |-> "ok",
                   arg |-> <<rabi_frequency, detuning>>]
        /\ UNCHANGED <<job, memo, obj>>

\* system.pump.set_intensity(...) or system.probe.set_intensity(...)
SetIntensity ==
    \E field \in {"pump", "probe"} :
    \E intensity \in IntensityArgVals, d \in DipoleArgs :
        /\ sys' = IF field = "pump"
                  THEN [sys EXCEPT !.pump_rabi = set_intensity(intensity, d)]
                  ELSE [sys EXCEPT !.probe_rabi = set_intensity(intensity, d)]
        /\ ret' = [op |-> "set_intensity", status |-> "ok",
                   arg |-> <<field, intensity, d>>]
        /\ UNCHANGED <<job, memo, obj>>

FieldNext ==
    \/ SystemConstruct
    \/ SetPumpParameters
    \/ SetProbeParameters
    \/ SetIntensity

FieldSpec == Init /\ [][FieldNext]_vars

(***************************************************************************)
(* BlochSolver.sweep_probe_detuning: solve_steady_state(probe_detuning =   *)
(* delta_probe) for every element of detuning_range.  ret holds the loop.  *)
(* FrameSpec runs every solver and sweep entry point that reads the        *)
(* system's fields, one call at a time.                                    *)
(***************************************************************************)
DetuningRange(n) == [i \in 1..n |-> IF i % 2 = 1 THEN R0 ELSE R1]

BlochSweepStart ==
    \E n \in 0..MaxPoints :
        /\ ret.op = "none"
        /\ job.pc = "idle"
        /\ ret' = [op |-> "BlochSolver.sweep_probe_detuning", pc |-> "loop",
                   status |-> "none", arg |-> DetuningRange(n), i |-> 0,
                   args |-> <<>>, coherences |-> <<>>]
        /\ UNCHANGED <<sys, job, memo, obj>>

BlochSweepPoint ==
    /\ ret.op = "BlochSolver.sweep_probe_detuning"
    /\ ret.pc = "loop"
    /\ ret.i < Len(ret.arg)
    /\ \E o \in BlochOutcomes :
          ret' = [ret EXCEPT
                    !.i = @ + 1,
                    !.args = Append(@, SolveArguments(sys, ret.arg[ret.i + 1])),
                    \* coherences[i] = rho[1, 2]
                    !.coherences = Append(@, SteadyStateTable[o][2][3])]
    /\ UNCHANGED <<sys, job, memo, obj>>

BlochSweepReturn ==
    /\ ret.op = "BlochSolver.sweep_probe_detuning"
    /\ ret.pc = "loop"
    /\ ret.i = Len(ret.arg)
    /\ ret' = NoCall
    /\ UNCHANGED <<sys, job, memo, obj>>

\* solve_steady_state called while no sweep is running
FrameSolve ==
    /\ job.pc = "idle"
    /\ ret.op \in {"none", "solve_steady_state"}
    /\ BlochSolve

FrameSweep2D ==
    /\ ret.op = "none"
    /\ Sweep2DStart

FrameSweep1D ==
    /\ ret.op = "none"
    /\ Sweep1DStart

FrameNext ==
    \/ FrameSolve
    \/ BlochSweepStart
    \/ BlochSweepPoint
    \/ BlochSweepReturn
    \/ FrameSweep2D
    \/ FrameSweep1D
    \/ SweepCell
    \/ SweepNextPass
    \/ SweepFinish
    \/ SweepReturn

FrameSpec == Init /\ [][FrameNext]_vars

(***************************************************************************)
(* The visualization routines that overwrite the system's fields while     *)
(* they run: one step per loop iteration (set, then eit_susceptibility,    *)
(* which only reads), one step for what follows the loop.  ret holds the   *)
(* routine's locals.  A sweep_2d call on the same system may run in        *)
(* another thread.                                                         *)
(***************************************************************************)
\* save pump (rabi, detuning); set_pump_parameters(v, 0.0) per iteration;
\* set_pump_parameters(originals) after the loop
PumpRabiRoutines ==
    {"plot_detuning_rabi_heatmap", "plot_3d_surface", "plot_linewidth_vs_pump_power",
     "create_interactive_heatmap", "create_interactive_3d_surface"}
\* save pump.detuning; pump.detuning = v per iteration; restored after
PumpDetuningRoutines == {"plot_two_photon_resonance"}
\* set_pump_parameters(v, 0.0) and set_probe_parameters(w, 0.0) per iteration
UnsavedRoutines == {"create_interactive_eit_spectrum"}
Routines == PumpRabiRoutines \cup PumpDetuningRoutines \cup UnsavedRoutines

\* the values a routine's loop runs over (np.linspace of its range)
RoutineValues(n) == [i \in 1..n |-> RInt(4 + i)]

\* the call of one of the routines ops, up to its loop
RoutineCall(ops) ==
    \E op \in ops, n \in 0..MaxPoints :
        /\ ret.op = "none"
        \* create_interactive_eit_spectrum loops over grids of fixed size
        /\ op \in UnsavedRoutines => n >= 1
        /\ ret' = [op |-> op, pc |-> "loop", status |-> "none",
                   before |-> sys,
                   original_pump_rabi |->
                       IF op \in PumpRabiRoutines THEN sys.pump_rabi ELSE NoVal,
                   original_pump_det |->
                       IF op \in UnsavedRoutines THEN NoVal ELSE sys.pump_detuning,
                   values |-> RoutineValues(n), i |-> 0]
        /\ UNCHANGED <<sys, job, memo, obj>>

RoutineStart == RoutineCall(Routines)

RoutineIter ==
    /\ ret.op \in Routines
    /\ ret.pc = "loop"
    /\ ret.i < Len(ret.values)
    /\ LET v == ret.values[ret.i + 1]
       IN  sys' = IF ret.op \in PumpRabiRoutines
                  THEN [sys EXCEPT !.pump_rabi = v, !.pump_detuning = R0]
                  ELSE IF ret.op \in PumpDetuningRoutines
                  THEN [sys EXCEPT !.pump_detuning = v]
                  ELSE [sys EXCEPT !.pump_rabi = v, !.pump_detuning = R0,
                                   !.probe_rabi = RHalf(v), !.probe_detuning = R0]
    /\ ret' = [ret EXCEPT !.i = @ + 1]
    /\ UNCHANGED <<job, memo, obj>>

\* the statements after the loop, up to the return
RoutineFinish ==
    /\ ret.op \in Routines
    /\ ret.pc = "loop"
    /\ ret.i = Len(ret.values)
    /\ sys' = IF ret.op \in PumpRabiRoutines
              THEN [sys EXCEPT !.pump_rabi = ret.original_pump_rabi,
                               !.pump_detuning = ret.original_pump_det]
              ELSE IF ret.op \in PumpDetuningRoutines
              THEN [sys EXCEPT !.pump_detuning = ret.original_pump_det]
              ELSE sys
    /\ ret' = [ret EXCEPT !.pc = "done", !.status = "ok"]
    /\ UNCHANGED <<job, memo, obj>>

RoutineReturn ==
    /\ ret.op \in Routines
    /\ ret.pc = "done"
    /\ ret' = NoCall
    /\ UNCHANGED <<sys, job, memo, obj>>

RoutineNext ==
    \/ RoutineStart
    \/ RoutineIter
    \/ RoutineFinish
    \/ RoutineReturn

RoutineSpec == Init /\ [][RoutineNext]_vars

\* a routine that sets, uses and restores the pump parameters, started in
\* another thread while a sweep_2d call on the same system is running
RestoringRoutineStart ==
    /\ job.op = "sweep_2d"
    /\ job.pc = "run"
    /\ RoutineCall({"plot_detuning_rabi_heatmap", "plot_two_photon_resonance"})

\* the sweep_2d call the routine runs beside
RaceSweepStart ==
    /\ ret.op = "none"
    /\ Sweep2DCall({"probe_detuning", "pump_rabi"})

RaceNext ==
    \/ RaceSweepStart
    \/ SweepCell
    \/ SweepFinish
    \/ SweepReturn
    \/ RestoringRoutineStart
    \/ RoutineIter
    \/ RoutineFinish
    \/ RoutineReturn

RaceSpec == Init /\ [][RaceNext]_vars

(***************************************************************************)
(* A ParameterSweepResult in the hands of a caller: the dataclass          *)
(* constructor (generated __init__, then __post_init__) and attribute      *)
(* assignment, which the non-frozen dataclass accepts without running      *)
(* __post_init__ again.                                                    *)
(***************************************************************************)
\* array shapes a caller may pass: 1-D and 2-D
ArrayShapes ==
    {<<a>> : a \in 0..MaxPoints} \cup ((0..MaxPoints) \X (0..MaxPoints))

ParamArrays == {[i \in 1..n |-> RInt(i)] : n \in 0..MaxPoints}

ResultArgs ==
    { [parameter_name |-> "probe_detuning",
       parameter_values |-> pv,
       chi3_values |-> Zeros(cs, C0),
       intensity_values |-> Zeros(is, R0),
       fixed_parameters |-> <<>>,
       secondary_parameter_name |-> None,
       secondary_parameter_values |-> None,
       metadata |-> <<>>] :
         pv \in ParamArrays, cs \in ArrayShapes, is \in ArrayShapes }
    \cup
    { [parameter_name |-> "probe_detuning",
       parameter_values |-> pv,
       chi3_values |-> Zeros(cs, C0),
       intensity_values |-> Zeros(is, R0),
       fixed_parameters |-> <<>>,
       secondary_parameter_name |-> "pump_rabi",
       secondary_parameter_values |-> sv,
       metadata |-> <<>>] :
         pv \in ParamArrays, sv \in ParamArrays,
         cs \in ArrayShapes, is \in ArrayShapes }

ResultConstruct ==
    \E r \in ResultArgs :
        /\ obj.state = "none"
        /\ obj' = IF post_init(r) = "ok"
                  THEN [state |-> "constructed", r |-> r, writes |-> 0]
                  ELSE [state |-> "ValueError", r |-> r, writes |-> 0]
        /\ UNCHANGED <<sys, ret, job, memo>>

\* result.chi3_values = a, result.intensity_values = a
ResultSetArray ==
    \E f \in {"chi3_values", "intensity_values"} :
    \E shape \in ArrayShapes :
        /\ obj.state = "constructed"
        /\ obj.writes = 0
        /\ obj' = [obj EXCEPT !.writes = 1,
                     !.r[f] = Zeros(shape, IF f = "chi3_values" THEN C0 ELSE R0)]
        /\ UNCHANGED <<sys, ret, job, memo>>

\* result.parameter_values = a
ResultSetValues ==
    \E pv \in ParamArrays :
        /\ obj.state = "constructed"
        /\ obj.writes = 0
        /\ obj' = [obj EXCEPT !.writes = 1, !.r.parameter_values = pv]
        /\ UNCHANGED <<sys, ret, job, memo>>

\* the caller lets go of the object
ResultDrop ==
    /\ obj.state # "none"
    /\ obj' = NoObj
    /\ UNCHANGED <<sys, ret, job, memo>>

ResultNext == ResultConstruct \/ ResultSetArray \/ ResultSetValues \/ ResultDrop

ResultSpec == Init /\ [][ResultNext]_vars

(***************************************************************************)
(* SpectraExporter.to_json / from_json.  A JSON value is [t |-> "num", v]  *)
(* or [t |-> "list", items]; the 'metadata', 'fixed_parameters',           *)
(* 'magnitude' and 'phase' entries of the file are not read back by        *)
(* from_json and are left out.                                             *)
(***************************************************************************)
JNum(x) == [t |-> "num", v |-> x]
JList(items) == [t |-> "list", items |-> items]

\* json.dump(a.tolist()) of a 1-D or 2-D array
tolist(a) ==
    IF Len(a.shape) = 1
    THEN JList([k \in 1..a.shape[1] |-> JNum(a.data[k])])
    ELSE JList([i \in 1..a.shape[1] |->
                  JList([j \in 1..a.shape[2] |->
                           JNum(a.data[(i - 1) * a.shape[2] + j])])])

\* np.array(json.load(...)) of a list of numbers or of a list of lists
np_array(js) ==
    IF js.items = <<>> THEN [shape |-> <<0>>, data |-> <<>>]
    ELSE IF js.items[1].t = "list"
    THEN LET n1 == Len(js.items)
             n2 == Len(js.items[1].items)
         IN  [shape |-> <<n1, n2>>,
              data |-> [k \in 1..(n1 * n2) |->
                          js.items[((k - 1) \div n2) + 1].items[((k - 1) % n2) + 1].v]]
    ELSE [shape |-> <<Len(js.items)>>,
          data |-> [k \in 1..Len(js.items) |-> js.items[k].v]]

\* np.real(a), np.imag(a)
np_real(a) == [a EXCEPT !.data = [k \in 1..Len(a.data) |-> a.data[k].re]]
np_imag(a) == [a EXCEPT !.data = [k \in 1..Len(a.data) |-> a.data[k].im]]

\* the 1-D array of a parameter_values sequence
AsArray(values) == [shape |-> <<Len(values)>>, data |-> values]

\* the data dictionary to_json writes
to_json(result) ==
    [parameter |-> [name |-> result.parameter_name,
                    values |-> tolist(AsArray(result.parameter_values))],
     results |-> [chi3 |-> [real |-> tolist(np_real(result.chi3_values)),
                            imag |-> tolist(np_imag(result.chi3_values))],
                  fwm_intensity |-> tolist(result.intensity_values)],
     has_secondary_parameter |-> result.secondary_parameter_name # None,
     secondary_parameter |->
        IF result.secondary_parameter_name # None
        THEN [name |-> result.secondary_parameter_name,
              values |-> tolist(AsArray(result.secondary_parameter_values))]
        ELSE NoVal]

\* the dictionary from_json returns for the file content data
from_json(data) ==
    LET chi3_real == np_array(data.results.chi3.real)
        chi3_imag == np_array(data.results.chi3.imag)
    IN  [parameter |-> [name |-> data.parameter.name,
                        values |-> np_array(data.parameter.values)],
         has_secondary_parameter |-> data.has_secondary_parameter,
         secondary_parameter |->
            IF data.has_secondary_parameter
            THEN [name |-> data.secondary_parameter.name,
                  values |-> np_array(data.secondary_parameter.values)]
            ELSE NoVal,
         results |->
            [chi3_complex |->
                [chi3_real EXCEPT !.data =
                    [k \in 1..Len(chi3_real.data) |->
                        CAdd(CReal(chi3_real.data[k]),
                             CMul(CI, CReal(chi3_imag.data[k])))]],
             fwm_intensity |-> np_array(data.results.fwm_intensity)]]

\* arrays with entries that differ from cell to cell
Chi3Array(shape) ==
    [shape |-> shape, data |-> [k \in 1..Prod(shape) |-> Cx(RInt(k), Rat(-k, 2))]]
IntensityArray(shape) ==
    [shape |-> shape, data |-> [k \in 1..Prod(shape) |-> Rat(k, 3)]]

\* the ParameterSweepResult objects the constructor accepts
ExportResults ==
    { r \in
        { [parameter_name |-> "probe_detuning",
           parameter_values |-> pv,
           chi3_values |-> Chi3Array(cs),
           intensity_values |-> IntensityArray(is),
           fixed_parameters |-> <<>>,
           secondary_parameter_name |-> None,
           secondary_parameter_values |-> None,
           metadata |-> <<>>] :
             pv \in ParamArrays, cs \in ArrayShapes, is \in ArrayShapes }
        \cup
        { [parameter_name |-> "probe_detuning",
           parameter_values |-> pv,
           chi3_values |-> Chi3Array(<<Len(pv), Len(sv)>>),
           intensity_values |-> IntensityArray(<<Len(pv), Len(sv)>>),
           fixed_parameters |-> <<>>,
           secondary_parameter_name |-> "pump_rabi",
           secondary_parameter_values |-> sv,
           metadata |-> <<>>] :
             pv \in ParamArrays, sv \in ParamArrays } :
      post_init(r) = "ok" }

\* SpectraExporter.to_json(result, filepath)
ToJson ==
    \E r \in ExportResults :
        /\ ret.op # "to_json"
        /\ ret' = [op |-> "to_json", status |-> "ok", arg |-> r,
                   file |-> to_json(r)]
        /\ UNCHANGED <<sys, job, memo, obj>>

\* SpectraExporter.from_json(filepath) on the file just written
FromJson ==
    /\ ret.op = "to_json"
    /\ ret' = [op |-> "from_json", status |-> "ok", arg |-> ret.arg,
               file |-> ret.file, out |-> from_json(ret.file)]
    /\ UNCHANGED <<sys, job, memo, obj>>

ExportNext == ToJson \/ FromJson

ExportSpec == Init /\ [][ExportNext]_vars

(***************************************************************************)
(* The library's functions called on their own: density_matrix_to_chi3_fwm *)
(* and fwm_signal_intensity.                                               *)
(***************************************************************************)
\* arguments the functions are called with (any number is accepted: the
\* functions validate nothing)
Chi3Rhos ==
    {DLAssemble(o.x) : o \in {q \in DLSweepOutcomes : q.status # "raised"}}
Chi3Args ==
    [rho : Chi3Rhos, probe_rabi : {R0, RInt(2)},
     probe_detuning : {RInt(-1), R0, R1}, excited_decay_rate : {R0, RInt(2)},
     dipole_moment_probe : {R1}, number_density : {R0, R1, RInt(2)}]

Chi3Call ==
    \E a \in Chi3Args :
        /\ ret.op = "none"
        /\ ret' = [op |-> "density_matrix_to_chi3_fwm", arg |-> a,
                   status |-> IF Chi3DividesByZero(a.probe_rabi, a.probe_detuning,
                                                   a.excited_decay_rate)
                              THEN "nan" ELSE "ok",
                   out |-> IF Chi3DividesByZero(a.probe_rabi, a.probe_detuning,
                                                a.excited_decay_rate)
                           THEN NoVal
                           ELSE density_matrix_to_chi3_fwm(
                                    a.rho, a.probe_rabi, a.probe_detuning,
                                    a.excited_decay_rate, a.dipole_moment_probe,
                                    a.number_density)]
        /\ UNCHANGED <<sys, job, memo, obj>>

IntensityArgs ==
    [chi3 : {C0, Cx(R1, R1), Cx(R0, RInt(-3)), Cx(RInt(-2), R0)},
     pump_intensity : {RInt(-1), R0, RInt(2)},
     probe_intensity : {RInt(-1), R0, R1},
     interaction_length : {RInt(-1), R0, Rat(1, 2), RInt(2)}]

IntensityCall ==
    \E a \in IntensityArgs :
        /\ ret.op = "none"
        /\ ret' = [op |-> "fwm_signal_intensity", arg |-> a, status |-> "ok",
                   out |-> fwm_signal_intensity(a.chi3, a.pump_intensity,
                                                a.probe_intensity,
                                                a.interaction_length)]
        /\ UNCHANGED <<sys, job, memo, obj>>

(***************************************************************************)
(* TwoLevelBlochSolver(rabi_frequency, detuning, decay_rate,               *)
(* dephasing_rate).solve_steady_state()                                    *)
(***************************************************************************)
\* denom = delta**2 + (gamma / 2 + gamma_deph)**2 + omega**2 / 2
TwoLevelDenom(omega, delta, gamma, gamma_deph) ==
    RAdd(RAdd(RSq(delta), RSq(RAdd(RHalf(gamma), gamma_deph))), RHalf(RSq(omega)))

\* rho_ge computed with -1j * omega instead of -1j * omega / 2
two_level_steady_state_no_half(omega, delta, gamma, gamma_deph) ==
    LET denom == TwoLevelDenom(omega, delta, gamma, gamma_deph)
        rho_ee == RDiv(RHalf(RSq(omega)), denom)
        rho_gg == RSub(R1, rho_ee)
        rho_ge == CScale(RInv(denom),
                         CMul(Cx(R0, RNeg(omega)),
                              Cx(delta, RNeg(RAdd(RHalf(gamma), gamma_deph)))))
        rho_eg == CConj(rho_ge)
    IN  << <<CReal(rho_gg), rho_ge>>, <<rho_eg, CReal(rho_ee)>> >>

\* the matrix solve_steady_state returns when denom is not zero
two_level_steady_state(omega, delta, gamma, gamma_deph) ==
    LET denom == TwoLevelDenom(omega, delta, gamma, gamma_deph)
        rho_ee == RDiv(RHalf(RSq(omega)), denom)
        rho_gg == RSub(R1, rho_ee)
        rho_ge == CScale(RInv(denom),
                         CMul(Cx(R0, RNeg(RHalf(omega))),
                              Cx(delta, RNeg(RAdd(RHalf(gamma), gamma_deph)))))
        rho_eg == CConj(rho_ge)
    IN  << <<CReal(rho_gg), rho_ge>>, <<rho_eg, CReal(rho_ee)>> >>

\* the constructor validates nothing; the numbers are Python floats or
\* numpy float64 scalars
TwoLevelArgs ==
    [omega : {R0, R1, RInt(2)}, delta : {RInt(-1), R0, RInt(2)},
     gamma : {R0, R1, RInt(2)}, gamma_deph : {R0, R1},
     number : {"float", "numpy.float64"}]

\* (omega**2 / 2) / denom with denom = 0: Python floats raise
\* ZeroDivisionError, numpy scalars warn and give nan
TwoLevelSolve ==
    \E a \in TwoLevelArgs :
        /\ ret.op = "none"
        /\ ret' =
             IF TwoLevelDenom(a.omega, a.delta, a.gamma, a.gamma_deph) # R0
             THEN [op |-> "TwoLevelBlochSolver.solve_steady_state", arg |-> a,
                   status |-> "ok", nan |-> FALSE,
                   out |-> two_level_steady_state(a.omega, a.delta, a.gamma,
                                                  a.gamma_deph)]
             ELSE IF a.number = "float"
             THEN [op |-> "TwoLevelBlochSolver.solve_steady_state", arg |-> a,
                   status |-> "ZeroDivisionError", nan |-> FALSE, out |-> NoRho]
             ELSE [op |-> "TwoLevelBlochSolver.solve_steady_state", arg |-> a,
                   status |-> "ok", nan |-> TRUE, out |-> NoRho]
        /\ UNCHANGED <<sys, job, memo, obj>>

(***************************************************************************)
(* validate_density_matrix and _ensure_physical called on matrices of the  *)
(* caller's choosing.                                                      *)
(***************************************************************************)
DiagEntries == {C0, CReal(Rat(1, 2)), CReal(R1), CReal(Rat(-1, 2)), Cx(Rat(1, 2), R1)}
OffEntries == {C0, CReal(Rat(1, 2)), Cx(R0, Rat(-1, 2)), Cx(Rat(3, 10), Rat(2, 5))}

\* 2x2 matrices, and 3x3 matrices with entries [1][2], [2][1] off the diagonal
TestMatrices ==
    { << <<d[1], u>>, <<l, d[2]>> >> :
         d \in DiagEntries \X DiagEntries, u \in OffEntries, l \in OffEntries }
    \cup
    { << <<d[1], u, C0>>, <<l, d[2], C0>>, <<C0, C0, d[3]>> >> :
         d \in DiagEntries \X DiagEntries \X {C0, CReal(Rat(1, 2)), CReal(Rat(-1, 2))},
         u \in OffEntries, l \in {C0, Cx(R0, Rat(1, 2))} }

\* rho = (rho + rho.conj().T) / 2
Symmetrized(rho) == MScale(Rat(1, 2), MAdd(rho, ConjT(rho)))
\* the matrix np.linalg.eigh is called on
TraceNormalized(rho) ==
    LET sym == Symmetrized(rho)
    IN  IF TraceIsUsable(Trace(sym)) THEN MDivC(sym, Trace(sym))
        ELSE MScale(Rat(1, Dim(rho)), Eye(Dim(rho)))

ValidateInputs == {M \in TestMatrices : EighSupported(M)}
ProjectorInputs == {M \in TestMatrices : EighSupported(TraceNormalized(M))}

\* tol = 1e-6 (the default), tol = 1e-1, tol = 1
TolExps == {DefaultTolExp, 1, 0}

ValidateCall ==
    \E M \in ValidateInputs, tolExp \in TolExps :
    \E cls \in {"BlochSolver", "TwoLevelBlochSolver"} :
        /\ ret.op = "none"
        /\ ret' = [op |-> "validate_density_matrix", status |-> "ok",
                   arg |-> [self |-> cls, rho |-> M, tol |-> tolExp],
                   \* the argument after the call: nothing assigns to it
                   rho_after |-> M,
                   out |-> IF cls = "BlochSolver"
                           THEN validate_density_matrix(M, tolExp)
                           ELSE two_level_validate_density_matrix(M, tolExp)]
        /\ UNCHANGED <<sys, job, memo, obj>>

ProjectCall ==
    \E M \in ProjectorInputs :
        /\ ret.op = "none"
        /\ ret' = [op |-> "_ensure_physical", status |-> "ok", arg |-> M,
                   out |-> ensure_physical(M)]
        /\ UNCHANGED <<sys, job, memo, obj>>

\* the caller has the value; the next call is independent of it
CallDone ==
    /\ ret.op # "none"
    /\ ret' = NoCall
    /\ UNCHANGED <<sys, job, memo, obj>>

(***************************************************************************)
(* Rb87System: levels, transitions and decay channels; DoubleLambdaSystem  *)
(* construction; BlochSolver.__init__ and _compute_decay_rates.            *)
(***************************************************************************)
\* natural linewidth of the D lines, in scaled units
RB_D_LINE_DECAY_RATE == RInt(2)

\* level energies in scaled units: the optical energy of the manifold plus a
\* hyperfine shift that grows with F
ManifoldEnergy(L, J2) == IF L = 0 THEN 0 ELSE IF J2 = 1 THEN 100 ELSE 200

\* AtomicLevel(n=5, L, J, F, mF=0.0, energy, label); J2 = 2J
AtomicLevel(L, J2, F, label) ==
    [n |-> 5, L |-> L, J2 |-> J2, F |-> F, mF |-> 0,
     energy |-> ManifoldEnergy(L, J2) + F, label |-> label]

\* AtomicLevel.__eq__: the energy and the label are not compared
LevelEq(a, b) ==
    a.n = b.n /\ a.L = b.L /\ a.J2 = b.J2 /\ a.F = b.F /\ a.mF = b.mF

ground_states ==
    << AtomicLevel(0, 1, 1, "5S_1/2, F=1"), AtomicLevel(0, 1, 2, "5S_1/2, F=2") >>
excited_states_5p12 ==
    << AtomicLevel(1, 1, 1, "5P_1/2, F=1"), AtomicLevel(1, 1, 2, "5P_1/2, F=2") >>
excited_states_5p32 ==
    << AtomicLevel(1, 3, 0, "5P_3/2, F=0"), AtomicLevel(1, 3, 1, "5P_3/2, F=1"),
       AtomicLevel(1, 3, 2, "5P_3/2, F=2"), AtomicLevel(1, 3, 3, "5P_3/2, F=3") >>
all_excited_states == excited_states_5p12 \o excited_states_5p32
all_levels == ground_states \o all_excited_states

AbsDiff(a, b) == IF a >= b THEN a - b ELSE b - a

calculate_clebsch_gordan_squared(F_lower, F_upper, J2_lower, J2_upper) ==
    IF AbsDiff(F_upper, F_lower) > 1 THEN R0
    ELSE IF J2_lower = 1 /\ J2_upper = 1 THEN Rat(1, 2)
    ELSE IF J2_lower = 1 /\ J2_upper = 3
         THEN LET F_max == IF F_lower >= F_upper THEN F_lower ELSE F_upper
              IN  Rat(2 * F_max + 1, (J2_upper + 1) * (J2_lower + 1))
    ELSE Rat(1, J2_upper + 1)

\* dF <= 1 and not (excited.F == 0 and ground.F == 0)
DipoleAllowed(excited, ground) ==
    AbsDiff(excited.F, ground.F) <= 1 /\ ~ (excited.F = 0 /\ ground.F = 0)

\* the (lower, upper) pairs of transitions_d1 + transitions_d2
all_transitions ==
    { p \in { <<ground_states[g], all_excited_states[e]>> :
                g \in 1..Len(ground_states), e \in 1..Len(all_excited_states) } :
        DipoleAllowed(p[2], p[1]) }

\* the channels of one excited state, in the order of ground_states
ChannelsOf(excited) ==
    LET Allowed(ground) == DipoleAllowed(excited, ground)
        excited_channels == SelectSeq(ground_states, Allowed)
        cg_squared == [k \in 1..Len(excited_channels) |->
                          calculate_clebsch_gordan_squared(
                              excited_channels[k].F, excited.F,
                              excited_channels[k].J2, excited.J2)]
        total_branching == RSum(cg_squared)
    IN  [k \in 1..Len(excited_channels) |->
            LET branching_ratio == IF RLt(R0, total_branching)
                                   THEN RDiv(cg_squared[k], total_branching)
                                   ELSE R0
            IN  [upper |-> excited, lower |-> excited_channels[k],
                 decay_rate |-> RMul(RB_D_LINE_DECAY_RATE, branching_ratio),
                 branching_ratio |-> branching_ratio]]

RECURSIVE ChannelsUpTo(_)
ChannelsUpTo(k) ==
    IF k = 0 THEN <<>>
    ELSE ChannelsUpTo(k - 1) \o ChannelsOf(all_excited_states[k])

decay_channels == ChannelsUpTo(Len(all_excited_states))

RECURSIVE TotalRateUpTo(_, _)
TotalRateUpTo(level, k) ==
    IF k = 0 THEN R0
    ELSE LET rest == TotalRateUpTo(level, k - 1)
         IN  IF LevelEq(decay_channels[k].upper, level)
             THEN RAdd(rest, decay_channels[k].decay_rate) ELSE rest

total_decay_rate(level) == TotalRateUpTo(level, Len(decay_channels))

\* the loop of _compute_decay_rates after k channels
RECURSIVE DecayRatesUpTo(_, _, _, _)
DecayRatesUpTo(excited, g1, g2, k) ==
    IF k = 0 THEN [gamma_e1 |-> R0, gamma_e2 |-> R0]
    ELSE LET acc == DecayRatesUpTo(excited, g1, g2, k - 1)
             channel == decay_channels[k]
         IN  IF LevelEq(channel.upper, excited)
             THEN IF LevelEq(channel.lower, g1)
                  THEN [acc EXCEPT !.gamma_e1 = channel.decay_rate]
                  ELSE IF LevelEq(channel.lower, g2)
                       THEN [acc EXCEPT !.gamma_e2 = channel.decay_rate]
                       ELSE acc
             ELSE acc

\* the loop without the test channel.upper == excited
RECURSIVE DecayRatesAnyUpper(_, _, _, _)
DecayRatesAnyUpper(excited, g1, g2, k) ==
    IF k = 0 THEN [gamma_e1 |-> R0, gamma_e2 |-> R0]
    ELSE LET acc == DecayRatesAnyUpper(excited, g1, g2, k - 1)
             channel == decay_channels[k]
         IN  IF LevelEq(channel.lower, g1)
             THEN [acc EXCEPT !.gamma_e1 = channel.decay_rate]
             ELSE IF LevelEq(channel.lower, g2)
                  THEN [acc EXCEPT !.gamma_e2 = channel.decay_rate]
                  ELSE acc

compute_decay_rates_any_upper(excited, g1, g2) ==
    LET r == DecayRatesAnyUpper(excited, g1, g2, Len(decay_channels))
    IN  [gamma_total |-> total_decay_rate(excited),
         gamma_e1 |-> r.gamma_e1, gamma_e2 |-> r.gamma_e2]

compute_decay_rates(excited, g1, g2) ==
    LET r == DecayRatesUpTo(excited, g1, g2, Len(decay_channels))
    IN  [gamma_total |-> total_decay_rate(excited),
         gamma_e1 |-> r.gamma_e1, gamma_e2 |-> r.gamma_e2]

LevelLabels == {all_levels[k].label : k \in 1..Len(all_levels)}
get_level(label) ==
    all_levels[CHOOSE k \in 1..Len(all_levels) : all_levels[k].label = label]
HasTransition(lower, upper) == <<lower, upper>> \in all_transitions

\* DoubleLambdaSystem._validate
DoubleLambdaValid(g1, g2, e) ==
    /\ ~ LevelEq(g1, g2)
    /\ g1.energy < e.energy
    /\ g2.energy < e.energy
    /\ g1.L = g2.L
    /\ g1.J2 = g2.J2

\* DoubleLambdaSystem("Rb87", g1, g2, e) followed by BlochSolver(system);
\* "None" is a label left to its default
BlochSolverInit ==
    \E l1 \in LevelLabels \cup {"None"}, l2 \in LevelLabels \cup {"None"},
       l3 \in LevelLabels \cup {"None"} :
        LET g1 == get_level(IF l1 = "None" THEN "5S_1/2, F=1" ELSE l1)
            g2 == get_level(IF l2 = "None" THEN "5S_1/2, F=2" ELSE l2)
            e == get_level(IF l3 = "None" THEN "5P_3/2, F=2" ELSE l3)
            built == /\ HasTransition(g1, e)
                     /\ HasTransition(g2, e)
                     /\ DoubleLambdaValid(g1, g2, e)
        IN  /\ ret.op = "none"
            /\ ret' = [op |-> "BlochSolver.__init__",
                       status |-> IF built THEN "ok" ELSE "ValueError",
                       arg |-> <<l1, l2, l3>>,
                       system |-> [ground_state_1 |-> g1, ground_state_2 |-> g2,
                                   excited_state |-> e],
                       out |-> IF built THEN compute_decay_rates(e, g1, g2)
                               ELSE NoVal]
            /\ UNCHANGED <<sys, job, memo, obj>>

(***************************************************************************)
(* The root-finder evaluating the residual functions at a point x.         *)
(***************************************************************************)
\* decay_rates of the BlochSolvers with excited state 5P_1/2 F=2, 5P_3/2 F=1
DecayRateSets ==
    { compute_decay_rates(all_excited_states[e], ground_states[1], ground_states[2]) :
        e \in {2, 4} }

\* fields, detunings and rates the residuals are evaluated with
RateArgs ==
    { [Omega_p |-> f[1], Omega_c |-> f[2], Delta_p |-> f[3], Delta_c |-> R0,
       Gamma |-> d.gamma_total, Gamma_e1 |-> d.gamma_e1, Gamma_e2 |-> d.gamma_e2,
       gamma_deph |-> R0] :
        f \in {R0, RInt(2)} \X {R0, RInt(2)} \X {R0, R1},
        d \in DecayRateSets }

\* equations(x) inside BlochSolver.solve_steady_state
BlochEquationsCall ==
    \E x \in XRaw, p \in RateArgs :
        /\ ret.op = "none"
        /\ ret' = [op |-> "solve_steady_state.equations", status |-> "ok",
                   arg |-> x, p |-> p,
                   rho_flat |-> equations_rho_flat(x),
                   out |-> bloch_equations(x, p)]
        /\ UNCHANGED <<sys, job, memo, obj>>

\* equations(x) inside solve_density_matrix_double_lambda, called for a
\* system with the rates p
DLEquationsCall ==
    \E x \in XRaw, p \in RateArgs :
        /\ ret.op = "none"
        /\ ret' = [op |-> "solve_density_matrix_double_lambda.equations",
                   status |-> "ok", arg |-> x, p |-> p,
                   out |-> dl_equations(x, p.Omega_p, p.Omega_c, p.Delta_p,
                                        p.Delta_c, p.Gamma, p.gamma_deph)]
        /\ UNCHANGED <<sys, job, memo, obj>>

CallNext ==
    \/ Chi3Call
    \/ IntensityCall
    \/ TwoLevelSolve
    \/ ValidateCall
    \/ ProjectCall
    \/ BlochSolverInit
    \/ BlochEquationsCall
    \/ DLEquationsCall
    \/ CallDone

CallSpec == Init /\ [][CallNext]_vars

Returned(op) == ret.op = op /\ ret.status = "ok"
IsValid(rho) == validate_density_matrix(rho, DefaultTolExp).valid

\* C1: every matrix BlochSolver.solve_steady_state returns is a valid density
\* matrix (Hermitian, trace 1, eigenvalues >= -1e-6), on the root-finder's
\* success path and on its fallback path alike.
C1_SteadyStateValid ==
    Returned("solve_steady_state") => IsValid(ret.rho)

\* the root-finder converged to a non-physical matrix and it was repaired
C1_Witness ==
    /\ Returned("solve_steady_state")
    /\ ret.fsolve.status = "converged"
    /\ ~ IsValid(ret.pre)
    /\ IsValid(ret.rho)

\* C2: both three-level solvers hand the matrix built from the root-finder's
\* solution to the Physicality Projector before returning it: what
\* BlochSolver.solve_steady_state and what solve_density_matrix_double_lambda
\* return is the projection of the matrix they assembled.
C2_ProjectorAlwaysApplied ==
    (Returned("solve_steady_state") \/ Returned("solve_density_matrix_double_lambda"))
        => ret.rho = ensure_physical(ret.pre)

\* C3: whatever the root-finder returns, the matrix
\* solve_density_matrix_double_lambda returns is physically valid (Hermitian,
\* trace 1, eigenvalues >= -1e-6) and its diagonal populations lie in [0, 1].
C3_DoubleLambdaValid ==
    Returned("solve_density_matrix_double_lambda") =>
        /\ IsValid(ret.rho)
        /\ \A i \in 1..3 : /\ ret.rho[i][i].im = R0
                           /\ RLe(R0, ret.rho[i][i].re)
                           /\ RLe(ret.rho[i][i].re, R1)

\* the state solve_steady_state returns from its fallback values
FallbackState == ensure_physical(BlochFallback)

\* C4: when the root-finder inside solve_steady_state does not converge or
\* raises, solve_steady_state returns without error the state built from the
\* fallback values 0.45, 0.45, 0.10 with all coherences zero.
C4_FallbackOnFailure ==
    (ret.op = "solve_steady_state" /\ ret.fsolve.status \in {"not_converged", "raised"})
        => /\ ret.status = "ok"
           /\ ret.pre = BlochFallback
           /\ ret.rho = FallbackState

(***************************************************************************)
(* Properties of the sweeps.                                               *)
(***************************************************************************)
ValidNames(j) ==
    j.op = "sweep_2d" => (j.names[1] \in DOMAIN param_map /\ j.names[2] \in DOMAIN param_map)

\* the grid shape of the call
GridShape(j) ==
    IF j.op = "sweep_2d" THEN <<Len(j.values1), Len(j.values2)>>
    ELSE <<Len(j.values1)>>

\* C5: a sweep started with a valid configuration never aborts, whatever the
\* root-finder does at a grid point (exception, non-convergence) and also on
\* a zero chi3 denominator, and the result it returns has chi3 and intensity
\* arrays of the full grid shape.
C5_SweepAlwaysCompletes ==
    (job.op # "none" /\ ValidNames(job)) =>
        /\ job.pc # "raised"
        /\ job.pc = "done" =>
              /\ job.result.chi3_values.shape = GridShape(job)
              /\ job.result.intensity_values.shape = GridShape(job)

\* C6: sweep_2d called with a name outside the accepted set never returns a
\* result and performs no steady-state solve, whatever the lengths of the
\* value arrays.
C6_UnknownNameRejected ==
    (job.op = "sweep_2d" /\ ~ ValidNames(job)) =>
        /\ job.pc # "done"
        /\ job.solves = 0
        /\ job.pc = "raised" => job.error = "ValueError"

\* the solver arguments recorded for call number k of the sweep, and the
\* chi3 and intensity the pipeline derives from the root-finder's answer
PipelineChi3(k) == CellChi3(job.cellp[k], memo[job.cellp[k]].x)
PipelineIntensity(k) == CellIntensity(PipelineChi3(k))

SameUnderlying(j) == param_map[j.names[1]] = param_map[j.names[2]]

\* cell [i, jj] of a returned 2D sweep holds the pipeline's result for
\* param1 = param1_values[i], param2 = param2_values[jj], the other solver
\* arguments being the system's
Cell2DRight(i, jj) ==
    LET n2 == Len(job.values2)
        k == (i - 1) * n2 + jj
        args == job.cellp[k]
        c1 == param_map[job.names[1]]
        c2 == param_map[job.names[2]]
    IN  /\ args[c1] = job.values1[i]
        /\ args[c2] = job.values2[jj]
        /\ \A c \in ParamKeys \ {c1, c2} : args[c] = sys[c]
        /\ job.result.chi3_values.data[k] = PipelineChi3(k)
        /\ job.result.intensity_values.data[k] = PipelineIntensity(k)

Grid2DRight ==
    LET n1 == Len(job.values1)
        n2 == Len(job.values2)
    IN  /\ job.result.chi3_values.shape = <<n1, n2>>
        /\ job.result.intensity_values.shape = <<n1, n2>>
        /\ Len(job.result.chi3_values.data) = n1 * n2
        /\ Len(job.result.intensity_values.data) = n1 * n2
        /\ job.result.parameter_values = job.values1
        /\ job.result.secondary_parameter_values = job.values2
        /\ Len(job.cellp) = n1 * n2
        /\ job.solves = n1 * n2
        /\ \A i \in 1..n1, jj \in 1..n2 : Cell2DRight(i, jj)

\* C9 as stated: for accepted names, the grids sweep_2d returns have shape
\* (n1, n2), cell [i, j] is the pipeline's result for param1 = param1_values[i]
\* and param2 = param2_values[j] with every other argument from the system,
\* and every cell has a solve of its own.
C9_Grid2D_AsStated ==
    (job.op = "sweep_2d" /\ job.pc = "done" /\ ValidNames(job)) => Grid2DRight

\* C9 amended: the same, for accepted names that denote two different
\* underlying parameters.
C9_Grid2D ==
    (job.op = "sweep_2d" /\ job.pc = "done" /\ ValidNames(job)
        /\ ~ SameUnderlying(job)) => Grid2DRight

\* a 2 x 2 sweep over two different parameters returned, with cells that differ
C9_Witness ==
    /\ job.op = "sweep_2d" /\ job.pc = "done" /\ ValidNames(job)
    /\ ~ SameUnderlying(job)
    /\ Len(job.values1) >= 2 /\ Len(job.values2) >= 2
    /\ job.result.chi3_values.data[1] # job.result.chi3_values.data[2]
    /\ job.result.chi3_values.data[1] # C0

SweptKey(op) ==
    IF op = "sweep_probe_detuning" THEN "probe_detuning"
    ELSE IF op = "sweep_pump_rabi_frequency" THEN "pump_rabi"
    ELSE "pump_detuning"

\* the value a 1D sweep fixes an unswept solver argument to
Fixed1D(j, c) ==
    IF c = "probe_detuning" /\ j.op # "sweep_probe_detuning" THEN j.arg ELSE sys[c]

\* entry i of a returned 1D sweep is the pipeline's result for
\* parameter_values[i], in every pass over the grid
Entry1DRight(i) ==
    LET n == job.num_points
        swept == SweptKey(job.op)
        passes == {k \in 1..Len(job.cellp) : ((k - 1) % n) + 1 = i}
    IN  /\ passes # {}
        /\ \A k \in passes :
              /\ job.cellp[k][swept] = job.result.parameter_values[i]
              /\ \A c \in ParamKeys \ {swept} : job.cellp[k][c] = Fixed1D(job, c)
              /\ job.result.chi3_values.data[i] = PipelineChi3(k)
              /\ job.result.intensity_values.data[i] = PipelineIntensity(k)

InOrder(pv, lo, hi) ==
    \A i \in 1..(Len(pv) - 1) :
        /\ RLe(lo, hi) => RLe(pv[i], pv[i + 1])
        /\ RLe(hi, lo) => RLe(pv[i + 1], pv[i])

Arrays1DRight ==
    LET n == job.num_points
        pv == job.result.parameter_values
    IN  /\ Len(pv) = n
        /\ job.result.chi3_values.shape = <<n>>
        /\ job.result.intensity_values.shape = <<n>>
        /\ Len(job.result.chi3_values.data) = n
        /\ Len(job.result.intensity_values.data) = n
        /\ n >= 1 => pv[1] = job.names[1]
        /\ InOrder(pv, job.names[1], job.names[2])
        /\ \A i \in 1..n : Entry1DRight(i)

\* C10 as stated: a 1D sweep with num_points = n returns three arrays of
\* length n, parameter_values running in order from the min argument to the
\* max argument (first value min, last value max), entry i of chi3 and of
\* intensity being the result computed for parameter_values[i].
C10_Sweep1D_AsStated ==
    (Is1D(job.op) /\ job.pc = "done") =>
        /\ Arrays1DRight
        /\ job.num_points >= 1 =>
              job.result.parameter_values[job.num_points] = job.names[2]

\* C10 amended: the same, the last value being the max argument when n >= 2;
\* for n = 1 the only value is the min argument.
C10_Sweep1D ==
    (Is1D(job.op) /\ job.pc = "done") =>
        /\ Arrays1DRight
        /\ job.num_points >= 2 =>
              job.result.parameter_values[job.num_points] = job.names[2]

\* a 1D sweep over a proper range returned at least two entries that differ
C10_Witness ==
    /\ Is1D(job.op) /\ job.pc = "done"
    /\ job.num_points >= 2
    /\ job.names[1] # job.names[2]
    /\ job.result.chi3_values.data[1] # job.result.chi3_values.data[2]
    /\ job.result.intensity_values.data[1] # R0

(***************************************************************************)
(* Properties of ParameterSweepResult.                                     *)
(***************************************************************************)
\* the shape of the parameter grid of the fields r
ExpectedShape(r) ==
    IF r.secondary_parameter_name # None
    THEN <<Len(r.parameter_values), Len(r.secondary_parameter_values)>>
    ELSE <<Len(r.parameter_values)>>

ExactShapes(r) ==
    /\ r.chi3_values.shape = ExpectedShape(r)
    /\ r.intensity_values.shape = ExpectedShape(r)

\* C7: the constructor of ParameterSweepResult returns only when chi3_values
\* and intensity_values have exactly the shape of the parameter grid, and
\* raises ValueError for any other shape.
C7_ConstructorChecksShape ==
    /\ (obj.state = "constructed" /\ obj.writes = 0) => ExactShapes(obj.r)
    /\ obj.state = "ValueError" => ~ ExactShapes(obj.r)

\* C8: once a ParameterSweepResult is constructed no operation changes its
\* fields, so its arrays keep the shape of its parameter grid.
C8_ImmutableOnceConstructed ==
    [][(obj.state = "constructed" /\ obj'.state = "constructed") => obj'.r = obj.r]_vars

(***************************************************************************)
(* Properties of density_matrix_to_chi3_fwm and fwm_signal_intensity.      *)
(***************************************************************************)
\* C11 as stated: every value fwm_signal_intensity returns is >= 0, for all
\* chi3, pump_intensity, probe_intensity and interaction_length.
C11_IntensityNonNegative_AsStated ==
    Returned("fwm_signal_intensity") => RLe(R0, ret.out)

\* C11 amended: every value fwm_signal_intensity returns for a
\* probe_intensity >= 0 is >= 0, for all chi3, pump_intensity and
\* interaction_length.
C11_IntensityNonNegative ==
    (Returned("fwm_signal_intensity") /\ RLe(R0, ret.arg.probe_intensity))
        => RLe(R0, ret.out)

\* a positive intensity from a chi3 with a negative part, a negative pump
\* intensity and a negative length
C11_Witness ==
    /\ Returned("fwm_signal_intensity")
    /\ RLt(R0, ret.arg.probe_intensity)
    /\ RLt(ret.arg.chi3.im, R0)
    /\ RLt(ret.arg.pump_intensity, R0)
    /\ RLt(ret.arg.interaction_length, R0)
    /\ RLt(R0, ret.out)

\* C12: density_matrix_to_chi3_fwm returns exactly 0 whenever the denominator
\* (probe_detuning + i * excited_decay_rate / 2) * (probe_rabi / 2) is zero,
\* in particular for probe_rabi = 0 with any density matrix, and the call
\* ends without an error or a division by zero.
C12_ZeroDenominatorGivesZero ==
    (ret.op = "density_matrix_to_chi3_fwm"
        /\ (ret.arg.probe_rabi = R0
            \/ (ret.arg.probe_detuning = R0 /\ ret.arg.excited_decay_rate = R0)))
        => /\ ret.status = "ok"
           /\ ret.out = C0

\* both degenerate cases, with a coherence and a density that are not zero
C12_Witness ==
    /\ Returned("density_matrix_to_chi3_fwm")
    /\ ret.arg.probe_rabi # R0
    /\ ret.arg.probe_detuning = R0 /\ ret.arg.excited_decay_rate = R0
    /\ ret.arg.rho[1][2] # C0
    /\ ret.arg.number_density # R0
    /\ ret.out = C0

\* factors number_density is multiplied by
DensityScales == {R0, Rat(1, 2), RInt(3), RInt(10)}

\* C13: with the density matrix and the other arguments fixed,
\* density_matrix_to_chi3_fwm is linear in number_density: k times the
\* density gives k times chi3 (10 times the density, 10 times chi3).
C13_Chi3LinearInDensity ==
    Returned("density_matrix_to_chi3_fwm") =>
        \A k \in DensityScales :
            density_matrix_to_chi3_fwm(
                ret.arg.rho, ret.arg.probe_rabi, ret.arg.probe_detuning,
                ret.arg.excited_decay_rate, ret.arg.dipole_moment_probe,
                RMul(k, ret.arg.number_density))
            = CScale(k, ret.out)

\* a chi3 that is not zero, so that its multiples differ
C13_Witness ==
    /\ Returned("density_matrix_to_chi3_fwm")
    /\ ret.arg.number_density = RInt(2)
    /\ ret.out # C0
    /\ ret.out.im # R0

\* factors interaction_length and pump_intensity are multiplied by
LengthScales == {R0, Rat(1, 2), RInt(2), RInt(-3)}

\* C14: with chi3 and probe_intensity fixed, replacing interaction_length L
\* by a * L and pump_intensity P by b * P multiplies the value of
\* fwm_signal_intensity by a^2 * b^2.
C14_IntensityQuadratic ==
    Returned("fwm_signal_intensity") =>
        \A a \in LengthScales, b \in LengthScales :
            fwm_signal_intensity(ret.arg.chi3,
                                 RMul(b, ret.arg.pump_intensity),
                                 ret.arg.probe_intensity,
                                 RMul(a, ret.arg.interaction_length))
            = RMul(RMul(RSq(a), RSq(b)), ret.out)

\* an intensity that is not zero, so that its multiples differ
C14_Witness ==
    /\ Returned("fwm_signal_intensity")
    /\ ret.arg.interaction_length = Rat(1, 2)
    /\ ret.arg.pump_intensity = RInt(2)
    /\ ret.out # R0

(***************************************************************************)
(* Properties of TwoLevelBlochSolver.solve_steady_state.                   *)
(***************************************************************************)
\* C15: for a Rabi frequency >= 0, a decay rate > 0 and a dephasing rate >= 0
\* the 2x2 matrix solve_steady_state returns has rho_gg + rho_ee = 1,
\* rho_eg = conj(rho_ge), 0 <= rho_ee < 1 and rho_gg * rho_ee >= |rho_ge|^2.
C15_TwoLevelValid ==
    (ret.op = "TwoLevelBlochSolver.solve_steady_state"
        /\ RLe(R0, ret.arg.omega) /\ RLt(R0, ret.arg.gamma)
        /\ RLe(R0, ret.arg.gamma_deph))
        => /\ ret.status = "ok" /\ ~ ret.nan
           /\ Dim(ret.out) = 2
           /\ CAdd(ret.out[1][1], ret.out[2][2]) = CReal(R1)
           /\ ret.out[2][1] = CConj(ret.out[1][2])
           /\ ret.out[1][1].im = R0 /\ ret.out[2][2].im = R0
           /\ RLe(R0, ret.out[2][2].re) /\ RLt(ret.out[2][2].re, R1)
           /\ RLe(CAbs2(ret.out[1][2]), RMul(ret.out[1][1].re, ret.out[2][2].re))

\* a driven, detuned transition: excited population and coherence not zero
C15_Witness ==
    /\ Returned("TwoLevelBlochSolver.solve_steady_state")
    /\ RLt(R0, ret.arg.gamma) /\ ret.arg.delta # R0 /\ RLt(R0, ret.arg.omega)
    /\ RLt(R0, ret.out[2][2].re)
    /\ ret.out[1][2].re # R0 /\ ret.out[1][2].im # R0

\* C16: solve_steady_state raises no error for any Rabi frequency >= 0,
\* decay rate >= 0, dephasing rate >= 0 and real detuning, the input with all
\* four equal to 0 included.
C16_TwoLevelNeverRaises ==
    ret.op = "TwoLevelBlochSolver.solve_steady_state" => ret.status = "ok"

\* C17: validate_density_matrix(M, tol) returns valid = True exactly when its
\* hermitian, trace_one and positive_semidefinite flags are all True; the
\* result is a function of (M, tol) alone, the same for either solver class,
\* and the call leaves M unchanged.
C17_ValidIsConjunction ==
    ret.op = "validate_density_matrix"
        => /\ ret.status = "ok"
           /\ ret.out.valid <=> (ret.out.hermitian /\ ret.out.trace_one
                                    /\ ret.out.positive_semidefinite)
           /\ ret.out = validate_density_matrix(ret.arg.rho, ret.arg.tol)
           /\ ret.rho_after = ret.arg.rho

\* a Hermitian matrix of trace 1 with a negative eigenvalue: only the
\* eigenvalue flag is False
C17_Witness ==
    /\ Returned("validate_density_matrix")
    /\ ret.arg.self = "TwoLevelBlochSolver"
    /\ ret.out.hermitian /\ ret.out.trace_one
    /\ ~ ret.out.positive_semidefinite /\ ~ ret.out.valid

\* sum of the clipped eigenvalues, the divisor of the renormalization
ClippedTotal(rho) ==
    LET e == eigh(TraceNormalized(rho))
    IN  RSum([k \in 1..Len(e) |-> RMax(e[k].val, R0)])

NonNegativeSpectrum(M) ==
    /\ EighSupported(M)
    /\ \A k \in 1..Dim(M) : RLe(R0, eigvalsh(M)[k])

\* C18: for any square complex input _ensure_physical returns a Hermitian
\* matrix of trace 1 whose eigenvalues are all >= 0, and the sum of clipped
\* eigenvalues it divides by is not zero.
C18_ProjectorOutputPhysical ==
    ret.op = "_ensure_physical"
        => /\ ret.status = "ok"
           /\ Dim(ret.out) = Dim(ret.arg)
           /\ ret.out = ConjT(ret.out)
           /\ Trace(ret.out) = CReal(R1)
           /\ NonNegativeSpectrum(ret.out)
           /\ ClippedTotal(ret.arg) # R0

\* an input that is not Hermitian, has trace other than 1 and, once
\* symmetrized and normalized, a negative eigenvalue
C18_Witness ==
    /\ Returned("_ensure_physical")
    /\ ret.arg # ConjT(ret.arg)
    /\ Trace(ret.arg) # CReal(R1)
    /\ ~ NonNegativeSpectrum(TraceNormalized(ret.arg))
    /\ ret.out # TraceNormalized(ret.arg)

\* C19: when the trace of the symmetrized matrix is (within 1e-10) zero the
\* projector returns the maximally mixed state I/n and raises nothing; when
\* it is not, the symmetrized matrix is divided by its trace, which is the
\* result whenever that quotient has no negative eigenvalue.
C19_ZeroTraceGivesMixedState ==
    ret.op = "_ensure_physical"
        => /\ ret.status = "ok"
           /\ Trace(Symmetrized(ret.arg)) = C0
                => ret.out = MScale(Rat(1, Dim(ret.arg)), Eye(Dim(ret.arg)))
           /\ Trace(Symmetrized(ret.arg)) # C0
                => LET q == MDivC(Symmetrized(ret.arg), Trace(Symmetrized(ret.arg)))
                   IN  /\ EighSupported(q)
                       /\ NonNegativeSpectrum(q) => ret.out = q

\* a 3x3 input with diagonal summing to zero, and not the zero matrix
C19_Witness ==
    /\ Returned("_ensure_physical")
    /\ Dim(ret.arg) = 3
    /\ Trace(Symmetrized(ret.arg)) = C0
    /\ Symmetrized(ret.arg) # MZero(3)
    /\ ret.out = MScale(Rat(1, 3), Eye(3))

\* the decay rates of the channels excited -> ground, 0 when there is none
ChannelRates(excited, ground) ==
    { decay_channels[k].decay_rate : k \in
        { j \in 1..Len(decay_channels) :
            /\ LevelEq(decay_channels[j].upper, excited)
            /\ LevelEq(decay_channels[j].lower, ground) } }

IsChannelRate(rate, excited, ground) ==
    IF ChannelRates(excited, ground) = {} THEN rate = R0
    ELSE rate \in ChannelRates(excited, ground)

\* C20: for every BlochSolver gamma_e1 and gamma_e2 are the decay rates of
\* the channels from the excited state to ground state 1 and to ground state
\* 2 (0 when there is no such channel), both are >= 0, and
\* gamma_e1 + gamma_e2 <= gamma_total.
C20_DecayRatesDecompose ==
    (ret.op = "BlochSolver.__init__" /\ ret.status = "ok")
        => /\ IsChannelRate(ret.out.gamma_e1, ret.system.excited_state,
                            ret.system.ground_state_1)
           /\ IsChannelRate(ret.out.gamma_e2, ret.system.excited_state,
                            ret.system.ground_state_2)
           /\ RLe(R0, ret.out.gamma_e1) /\ RLe(R0, ret.out.gamma_e2)
           /\ RLe(RAdd(ret.out.gamma_e1, ret.out.gamma_e2), ret.out.gamma_total)

\* unequal branches: 5P_3/2 F=1 decays 3/8 to F=1 and 5/8 to F=2, and the
\* pump couples the upper ground state
C20_Witness ==
    /\ ret.op = "BlochSolver.__init__" /\ ret.status = "ok"
    /\ ret.system.excited_state.label = "5P_3/2, F=1"
    /\ ret.system.ground_state_1.label = "5S_1/2, F=2"
    /\ RLt(ret.out.gamma_e2, ret.out.gamma_e1)
    /\ RAdd(ret.out.gamma_e1, ret.out.gamma_e2) = RB_D_LINE_DECAY_RATE

\* C21: with the system left unmodified, evaluating the cells of a 2D sweep
\* in any order yields the same chi3 and intensity grids as the sequential
\* row-major loop, and ends in an error exactly when the sequential loop does.
C21_OrderIndependent ==
    (job.op = "sweep_2d" /\ job.pc \in {"done", "raised"}
        /\ ret.op = "sweep_2d (pool)" /\ ret.pc \in {"done", "raised"})
        => /\ ret.pc = job.pc
           /\ job.pc = "done"
                => /\ ret.chi3 = job.result.chi3_values
                   /\ ret.intensity = job.result.intensity_values

\* a 2 x 2 grid evaluated last cell first, with cells that differ
C21_Witness ==
    /\ job.op = "sweep_2d" /\ job.pc = "done"
    /\ ret.op = "sweep_2d (pool)" /\ ret.pc = "done"
    /\ Len(ret.order) = 4 /\ ret.order[1] = 3 /\ ret.order[2] = 1
    /\ ret.chi3.data[1] # ret.chi3.data[2]

\* the Rabi frequency a call asks a field to take, NoVal when it asks none
RequestedRabi ==
    IF ret.op \in {"set_pump_parameters", "set_probe_parameters"}
    THEN {ret.arg[1]}
    ELSE IF ret.op = "DoubleLambdaSystem" THEN {ret.arg[1], ret.arg[2]}
    ELSE IF ret.op = "set_intensity" THEN {set_intensity(ret.arg[2], ret.arg[3])}
    ELSE {}

\* C22: in every state reached by constructing a system and applying any
\* sequence of set_pump_parameters, set_probe_parameters and set_intensity
\* calls, each field's rabi_frequency is >= 0, and a call that asks for a
\* negative Rabi frequency is rejected with ValueError.
C22_RabiNonNegative ==
    /\ RLe(R0, sys.pump_rabi)
    /\ RLe(R0, sys.probe_rabi)
    /\ (\E r \in RequestedRabi : RLt(r, R0)) => ret.status = "ValueError"

\* C23: for any ParameterSweepResult r (1D or 2D), from_json applied to the
\* file to_json(r) wrote yields parameter values, secondary parameter values
\* (when present), complex chi3 values and fwm_intensity values equal to
\* those of r, with the same array shapes.  Checked for the results whose
\* arrays have the shape of their parameter arrays.
C23_JsonRoundTrip ==
    (ret.op = "from_json" /\ ExactShapes(ret.arg))
        => /\ ret.out.parameter.values = AsArray(ret.arg.parameter_values)
           /\ ret.out.has_secondary_parameter
                = (ret.arg.secondary_parameter_name # None)
           /\ ret.out.has_secondary_parameter
                => ret.out.secondary_parameter.values
                     = AsArray(ret.arg.secondary_parameter_values)
           /\ ret.out.results.chi3_complex = ret.arg.chi3_values
           /\ ret.out.results.fwm_intensity = ret.arg.intensity_values

\* the density matrix whose components are the nine entries of rho_flat, in
\* the order _rhs unpacks them
ResidualMatrix(rho_flat) ==
    BlochMatrix(rho_flat[1], rho_flat[2], rho_flat[3], rho_flat[4], rho_flat[5],
                rho_flat[6], rho_flat[7], rho_flat[8], rho_flat[9])

\* the unknowns whose value changes no residual, whatever the rates
IgnoredUnknowns ==
    { k \in 1..8 :
        \A q \in RateArgs :
            bloch_equations([initial_guess EXCEPT ![k] = RAdd(@, Rat(1, 10))], q)
                = bloch_equations(initial_guess, q) }

\* C24: each of the 8 unknowns denotes the same density-matrix component in
\* the residual function as in the matrix assembled from the solution, and
\* the residual function ignores none of them.
C24_UnknownsConsistent ==
    ret.op = "solve_steady_state.equations"
        => /\ ResidualMatrix(ret.rho_flat) = BlochAssemble(ret.arg)
           /\ IgnoredUnknowns = {}

AllZero(v) == \A k \in 1..Len(v) : v[k] = R0

\* the state x of the double-lambda solver, (rho11, rho22, rho_1e, rho_2e,
\* rho_12), as the rho_flat of _rhs
AsRhoFlat(x) ==
    << x[1], x[2], RSub(RSub(R1, x[1]), x[2]), x[7], x[8], x[3], x[4], x[5], x[6] >>

\* C25: for every state and every parameter set the residuals of
\* solve_density_matrix_double_lambda are zero exactly when the residuals of
\* BlochSolver._rhs are zero.
C25_SameSteadyStateEquations ==
    ret.op = "solve_density_matrix_double_lambda.equations"
        => (AllZero(ret.out) <=> AllZero(rhs(AsRhoFlat(ret.arg), ret.p)))

\* C26: every sweep routine that overwrites the system's pump or probe
\* parameters while it runs restores them: when the routine has completed,
\* the pump and probe rabi_frequency and detuning equal their values before
\* the call.
C26_RoutinesRestore ==
    (ret.op \in Routines /\ ret.pc = "done") => sys = ret.before

\* the keys of the solver arguments that the running sweep_2d does not sweep
NonSwept(j) == ParamKeys \ {param_map[j.names[1]], param_map[j.names[2]]}

\* C30: all grid cells of one sweep_2d call are computed with the values of
\* the non-swept parameters that the system held when the call started, even
\* if another routine sets, uses and restores the same system's pump
\* parameters while the sweep runs.
C30_CellsUseStartValues ==
    (job.op = "sweep_2d" /\ ValidNames(job))
        => \A k \in 1..Len(job.cellp) :
              \A c \in NonSwept(job) : job.cellp[k][c] = job.snap[c]

\* C27: BlochSolver.solve_steady_state (with or without an explicit
\* probe_detuning), BlochSolver.sweep_probe_detuning, the FWMSpectraCalculator
\* sweeps and the ParameterSweep sweeps leave the system's pump and probe
\* rabi_frequency and detuning unchanged: no step of any of them changes them.
C27_SolversLeaveFieldsUnchanged == [][sys' = sys]_vars

\* a solve with an explicit probe_detuning that is not the system's has run
C27_Witness ==
    /\ ret.op = "solve_steady_state"
    /\ ret.arg # NoArg
    /\ ret.arg # sys.probe_detuning

\* C28: in the result of sweep_probe_detuning, intensity_values[i] is
\* fwm_signal_intensity of chi3_values[i] with the call's pump_intensity,
\* probe_intensity and the calculator's interaction_length, although the two
\* arrays come from two separate passes over the detunings.
C28_IntensityMatchesChi3 ==
    (job.op = "sweep_probe_detuning" /\ job.pc = "done") =>
        /\ job.result.intensity_values.shape = job.result.chi3_values.shape
        /\ \A i \in 1..Len(job.result.chi3_values.data) :
              job.result.intensity_values.data[i]
                  = CellIntensity(job.result.chi3_values.data[i])

\* a probe-detuning sweep returned two points with different, nonzero signals
C28_Witness ==
    /\ job.op = "sweep_probe_detuning" /\ job.pc = "done"
    /\ job.pass = 2
    /\ Len(job.result.chi3_values.data) >= 2
    /\ job.result.chi3_values.data[1] # job.result.chi3_values.data[2]
    /\ job.result.intensity_values.data[1] # R0
    /\ job.result.intensity_values.data[2] # R0

\* C29: when the two names given to sweep_2d denote the same underlying
\* parameter, no error is raised for the names, every cell is solved with the
\* second parameter's value (it overrides the first), and the returned grids
\* are constant along the first axis.
C29_SameParameterSecondWins ==
    (job.op = "sweep_2d" /\ ValidNames(job) /\ SameUnderlying(job)) =>
        LET n2 == Len(job.values2)
            c == param_map[job.names[2]]
        IN  /\ job.error # "ValueError"
            /\ \A k \in 1..Len(job.cellp) :
                  job.cellp[k][c] = job.values2[((k - 1) % n2) + 1]
            /\ job.pc = "done" =>
                  \A i \in 1..Len(job.values1), jj \in 1..n2 :
                     /\ job.result.chi3_values.data[(i - 1) * n2 + jj]
                            = job.result.chi3_values.data[jj]
                     /\ job.result.intensity_values.data[(i - 1) * n2 + jj]
                            = job.result.intensity_values.data[jj]

\* a 2 x 2 sweep over one parameter under two names returned; its rows are
\* equal while its columns differ
C29_Witness ==
    /\ job.op = "sweep_2d" /\ job.pc = "done" /\ ValidNames(job)
    /\ SameUnderlying(job)
    /\ job.names[1] # job.names[2]
    /\ Len(job.values1) = 2 /\ Len(job.values2) = 2
    /\ job.cellp[3].pump_rabi = job.values2[1]
    /\ job.values1[2] # job.values2[1]
    /\ job.result.chi3_values.data[1] # job.result.chi3_values.data[2]

====
